---- MODULE Spec2Model ----
(***************************************************************************)
(* Model of the two security-sensitive pieces of project-starter-guide:    *)
(*   - the SSRF protection middleware of the api-service template          *)
(*     (validateURL, ssrfProtection, the pinned-DNS agent) and the /fetch  *)
(*     route that uses it;                                                 *)
(*   - the license signing / verification code of the monetization         *)
(*     templates (licensing.js, stripe-integration.js,                     *)
(*     license-validator.js).                                              *)
(***************************************************************************)
EXTENDS Integers, Sequences, FiniteSets, TLC

VARIABLES
  pc,          \* position of the /fetch request in the middleware chain
  options,     \* the SSRFOptions the middleware was constructed with
  req,         \* the request: authorization header kind and url parameter
  parsed,      \* the URL object validateURL parsed (when it parsed one)
  dnsCalls,    \* number of dns.promises.lookup calls validateURL has made
  lookup,      \* the dns.promises.lookup promise: its state and its answer
  timer,       \* state of withTimeout's setTimeout timer
  settled,     \* how often the promise returned by withTimeout was settled
  result,      \* the ValidationResult validateURL returned
  nextCalls,   \* how often ssrfProtection called next()
  reqState,    \* validatedUrl / validatedUrlAddresses / validatedUrlAgent
  agentIndex,  \* `index` closed over by the agent's pinned lookup
  connects,    \* addresses the outbound request connected to, in order
  reResolved,  \* the HTTP client resolved the hostname itself
  responses,   \* the responses sent for the request, in order
  env,         \* process.env: NODE_ENV and LICENSE_SIGNING_SECRET
  devMode,     \* licensing.js developer mode (env flag or marker file)
  licenseFile, \* content of license.json
  now,         \* the clock read by Date.now() / new Date()
  issuedLic,   \* what the last generateLicenseKey call returned
  lastCall,    \* the last license operation called and its outcome
  calls,       \* the validateURL calls in flight at once, each with its locals
  fetch,       \* the /fetch handler and its requestText call: promise, size, chunks
  webhook,     \* the Stripe webhook request being handled and what came of it
  dbFile,      \* content of legitimate-licenses.json, the local license database
  dbCall       \* the last database operation: the file before it and its return

urlVars == <<pc, options, req, parsed, dnsCalls, lookup, timer, settled,
             result, nextCalls, reqState, agentIndex, connects, reResolved,
             responses>>
licVars == <<env, devMode, licenseFile, now, issuedLic, lastCall>>
parVars == <<calls>>
fetchVars == <<fetch>>
hookVars == <<webhook>>
dbVars == <<dbFile, dbCall>>
vars == <<urlVars, licVars, parVars, fetchVars, hookVars, dbVars>>

\* what the steps of one part of the program leave alone
nonUrlVars == <<licVars, parVars, fetchVars, hookVars, dbVars>>
nonLicVars == <<urlVars, parVars, fetchVars, hookVars, dbVars>>
nonParVars == <<urlVars, licVars, fetchVars, hookVars, dbVars>>
nonFetchVars == <<urlVars, licVars, parVars, hookVars, dbVars>>
nonHookVars == <<urlVars, licVars, parVars, fetchVars, dbVars>>
nonDbVars == <<urlVars, licVars, parVars, fetchVars, hookVars>>

(***************************************************************************)
(* Bounds of the model.                                                    *)
(***************************************************************************)
MaxAnswers == 2    \* longest DNS answer list
MaxConnects == 3   \* most connections one outbound request opens
MaxClock == 2      \* latest value of the clock

(***************************************************************************)
(* Addresses.  An IPv4 address is its four octets; an IPv6 address is its  *)
(* text, drawn from a fixed sample.                                        *)
(***************************************************************************)
V4(a, b, c, d) == [fam |-> 4, o |-> <<a, b, c, d>>, s |-> ""]
V6(text) == [fam |-> 6, o |-> <<>>, s |-> text]

\* /^10\./ ... /^203\.0\.113\./ : the IPv4 patterns of BLOCKED_IP_RANGES
BlockedV4(o) ==
  \/ o[1] = 10
  \/ o[1] = 172 /\ o[2] \in 16..31
  \/ o[1] = 192 /\ o[2] = 168
  \/ o[1] = 127
  \/ o[1] = 169 /\ o[2] = 254
  \/ o[1] = 100 /\ o[2] \in 64..127
  \/ o[1] = 0
  \/ o[1] = 192 /\ o[2] = 0 /\ o[3] = 2
  \/ o[1] = 198 /\ o[2] = 51 /\ o[3] = 100
  \/ o[1] = 203 /\ o[2] = 0 /\ o[3] = 113

\* the sampled IPv6 texts that one of the IPv6 patterns of BLOCKED_IP_RANGES
\* matches (/^::1$/, /^::$/, /^fc00:/i, /^fd00:/i, /^fe80:/i, /^::ffff:10\./i,
\* /^::ffff:127\./i); "2606:4700::1111" and "fd12:3456::1" match none.
BlockedV6(s) ==
  s \in {"::1", "::", "fc00::1", "fd00::1", "fe80::1",
         "::ffff:10.0.0.1", "::ffff:127.0.0.1"}

BLOCKED_IP_RANGES(ip) ==
  IF ip.fam = 4 THEN BlockedV4(ip.o) ELSE BlockedV6(ip.s)

\* /^169\.254\.169\.254$/
METADATA_IP_RANGES(ip) == ip.fam = 4 /\ ip.o = <<169, 254, 169, 254>>

isBlockedIP(ip, blockMetadataEndpoints) ==
  IF blockMetadataEndpoints
    THEN BLOCKED_IP_RANGES(ip) \/ METADATA_IP_RANGES(ip)
    ELSE BLOCKED_IP_RANGES(ip)

(***************************************************************************)
(* Hostnames.  A name is its sequence of labels ("foo.localhost" is        *)
(* <<"foo", "localhost">>) with a flag for upper-case spelling; an IPv4    *)
(* literal is its octets.                                                  *)
(***************************************************************************)
Name(labels) == [kind |-> "name", labels |-> labels, upper |-> FALSE, ip |-> <<>>]
UpperName(labels) == [kind |-> "name", labels |-> labels, upper |-> TRUE, ip |-> <<>>]
Literal(a, b, c, d) == [kind |-> "ip4", labels |-> <<>>, upper |-> FALSE, ip |-> <<a, b, c, d>>]

toLowerCase(h) == [h EXCEPT !.upper = FALSE]

\* hostname.endsWith(`.${domain}`), both spelt as given
endsWithDot(h, d) ==
  /\ h.kind = "name" /\ d.kind = "name"
  /\ h.upper = d.upper
  /\ Len(h.labels) > Len(d.labels)
  /\ SubSeq(h.labels, Len(h.labels) - Len(d.labels) + 1, Len(h.labels)) = d.labels

BLOCKED_HOSTNAMES ==
  { Name(<<"localhost">>), Name(<<"localhost", "localdomain">>),
    Name(<<"kubernetes", "default">>), Name(<<"kubernetes", "default", "svc">>) }

METADATA_HOSTNAMES ==
  { Name(<<"metadata", "google", "internal">>), Name(<<"metadata">>) }

\* the blocklist matched on equality only
isBlockedHostname_exactOnly(hostname, blockMetadataEndpoints) ==
  LET lowerHostname == toLowerCase(hostname)
      blocked == IF blockMetadataEndpoints
                   THEN BLOCKED_HOSTNAMES \cup METADATA_HOSTNAMES
                   ELSE BLOCKED_HOSTNAMES
  IN \E b \in blocked : lowerHostname = b

isBlockedHostname(hostname, blockMetadataEndpoints) ==
  LET lowerHostname == toLowerCase(hostname)
      blocked == IF blockMetadataEndpoints
                   THEN BLOCKED_HOSTNAMES \cup METADATA_HOSTNAMES
                   ELSE BLOCKED_HOSTNAMES
  IN \E b \in blocked : lowerHostname = b \/ endsWithDot(lowerHostname, b)

(***************************************************************************)
(* URL strings.  A url parameter is missing, an array, a string that       *)
(* `new URL` rejects, or a string spelling protocol://host[:port]/.        *)
(***************************************************************************)
NoPort == 0 - 1  \* url.port === ''

RawUrl(protocol, host, port) ==
  [kind |-> "url", protocol |-> protocol, host |-> host, port |-> port]
Malformed == [kind |-> "malformed", protocol |-> "", host |-> Name(<<>>), port |-> NoPort]
MissingUrl == [kind |-> "missing", protocol |-> "", host |-> Name(<<>>), port |-> NoPort]
ArrayUrl == [kind |-> "array", protocol |-> "", host |-> Name(<<>>), port |-> NoPort]

getDefaultPort(protocol) == IF protocol = "https:" THEN 443 ELSE 80

\* the scheme's default port, which the URL parser drops from url.port
SchemeDefaultPort(protocol) ==
  CASE protocol = "https:" -> 443
    [] protocol = "http:" -> 80
    [] protocol = "ftp:" -> 21
    [] OTHER -> NoPort

\* `new URL(urlString)`: throws on a string that is no absolute URL; lowers the
\* case of the host and empties a port equal to the scheme's default.
ParseURL(urlString) ==
  IF urlString.kind # "url"
    THEN [ok |-> FALSE, protocol |-> "", hostname |-> Name(<<>>), port |-> NoPort]
    ELSE [ok |-> TRUE,
          protocol |-> urlString.protocol,
          hostname |-> toLowerCase(urlString.host),
          port |-> IF urlString.port = SchemeDefaultPort(urlString.protocol)
                     THEN NoPort ELSE urlString.port]

NoUrl == [ok |-> FALSE, protocol |-> "", hostname |-> Name(<<>>), port |-> NoPort]

(***************************************************************************)
(* Validation results and their error strings.  An error is its text and,  *)
(* for the port errors `Port ${port} is ...`, the port.                    *)
(***************************************************************************)
Err(text, n) == [defined |-> TRUE, text |-> text, n |-> n]
NoErr == [defined |-> FALSE, text |-> "", n |-> 0]

Invalid(error) ==
  [valid |-> FALSE, error |-> error, hasUrl |-> FALSE, url |-> NoUrl,
   hasAddresses |-> FALSE, resolvedAddresses |-> <<>>]
NoResult ==
  [valid |-> FALSE, error |-> NoErr, hasUrl |-> FALSE, url |-> NoUrl,
   hasAddresses |-> FALSE, resolvedAddresses |-> <<>>]

ALLOWED_PROTOCOLS == {"http:", "https:"}
BLOCKED_PORTS == {22, 25, 3306, 5432, 6379, 27017, 9200, 9300}

InSeq(x, seq) == \E i \in 1..Len(seq) : seq[i] = x

ProtocolError(protocol) ==
  CASE protocol = "ftp:" -> Err("Protocol ftp: is not allowed", 0)
    [] protocol = "file:" -> Err("Protocol file: is not allowed", 0)
    [] OTHER -> Err("Protocol is not allowed", 0)

validateProtocol(url) ==
  IF url.protocol \notin ALLOWED_PROTOCOLS THEN ProtocolError(url.protocol) ELSE NoErr

\* the port check consulting allowedPorts before the blocked list
validatePort_allowFirst(url, allowedPortsSet, allowedPorts) ==
  LET port == IF url.port # NoPort THEN url.port ELSE getDefaultPort(url.protocol)
  IN IF allowedPortsSet
       THEN IF InSeq(port, allowedPorts) THEN NoErr
            ELSE Err("Port N is not allowed", port)
     ELSE IF port \in BLOCKED_PORTS THEN Err("Port N is blocked", port)
     ELSE NoErr

validatePort(url, allowedPortsSet, allowedPorts) ==
  LET port == IF url.port # NoPort THEN url.port ELSE getDefaultPort(url.protocol)
  IN IF port \in BLOCKED_PORTS THEN Err("Port N is blocked", port)
     ELSE IF allowedPortsSet /\ ~InSeq(port, allowedPorts)
       THEN Err("Port N is not allowed", port)
     ELSE NoErr

\* the domain check without the early return for an empty allow list
validateDomain_emptyRejects(url, allowedDomains) ==
  IF \E i \in 1..Len(allowedDomains) :
       \/ url.hostname = allowedDomains[i]
       \/ endsWithDot(url.hostname, allowedDomains[i])
    THEN NoErr
  ELSE Err("Domain not in allowed list", 0)

validateDomain(url, allowedDomains) ==
  IF Len(allowedDomains) = 0 THEN NoErr
  ELSE IF \E i \in 1..Len(allowedDomains) :
            \/ url.hostname = allowedDomains[i]
            \/ endsWithDot(url.hostname, allowedDomains[i])
    THEN NoErr
  ELSE Err("Domain not in allowed list", 0)

(***************************************************************************)
(* Options.  A field of the options object is set or left out; validateURL *)
(* merges the object over defaultOptions.                                  *)
(***************************************************************************)
Set(v) == [set |-> TRUE, v |-> v]
Unset(v) == [set |-> FALSE, v |-> v]

\* { ...defaultOptions, ...options } and opts.blockMetadataEndpoints ?? true
defaultOptions(o) ==
  [allowedDomains |-> IF o.allowedDomains.set THEN o.allowedDomains.v ELSE <<>>,
   allowedPortsSet |-> o.allowedPorts.set,
   allowedPorts |-> IF o.allowedPorts.set THEN o.allowedPorts.v ELSE <<>>,
   blockPrivateIPs |-> IF o.blockPrivateIPs.set THEN o.blockPrivateIPs.v ELSE TRUE,
   blockMetadataEndpoints |->
     IF o.blockMetadataEndpoints.set THEN o.blockMetadataEndpoints.v ELSE TRUE]

(***************************************************************************)
(* validateURL up to its only suspension point: either it returns a result *)
(* (step "return") or it calls validateDNS, which starts the lookup (step  *)
(* "await"); an exception that escaped it would be step "throw".           *)
(***************************************************************************)
Return(r) == [step |-> "return", result |-> r, url |-> NoUrl]
Throw == [step |-> "throw", result |-> NoResult, url |-> NoUrl]
Await(url) == [step |-> "await", result |-> NoResult, url |-> url]

\* validateURL resolving the hostname before the port and domain checks
validateURL_dnsFirst(urlString, o) ==
  LET opts == defaultOptions(o)
      url == ParseURL(urlString)
  IN IF ~url.ok THEN Return(Invalid(Err("Invalid URL format", 0)))
     ELSE IF validateProtocol(url).defined
       THEN Return(Invalid(validateProtocol(url)))
     ELSE IF isBlockedHostname(url.hostname, opts.blockMetadataEndpoints)
       THEN Return(Invalid(Err("Hostname is blocked", 0)))
     ELSE IF opts.blockPrivateIPs THEN Await(url)
     ELSE IF validatePort(url, opts.allowedPortsSet, opts.allowedPorts).defined
       THEN Return(Invalid(validatePort(url, opts.allowedPortsSet, opts.allowedPorts)))
     ELSE IF validateDomain(url, opts.allowedDomains).defined
       THEN Return(Invalid(validateDomain(url, opts.allowedDomains)))
     ELSE Return([valid |-> TRUE, error |-> NoErr, hasUrl |-> TRUE, url |-> url,
                  hasAddresses |-> FALSE, resolvedAddresses |-> <<>>])

\* validateURL without the try/catch around `new URL`
validateURL_noCatch(urlString, o) ==
  LET opts == defaultOptions(o)
      url == ParseURL(urlString)
  IN IF ~url.ok THEN Throw
     ELSE IF validateProtocol(url).defined
       THEN Return(Invalid(validateProtocol(url)))
     ELSE IF isBlockedHostname(url.hostname, opts.blockMetadataEndpoints)
       THEN Return(Invalid(Err("Hostname is blocked", 0)))
     ELSE IF validatePort(url, opts.allowedPortsSet, opts.allowedPorts).defined
       THEN Return(Invalid(validatePort(url, opts.allowedPortsSet, opts.allowedPorts)))
     ELSE IF validateDomain(url, opts.allowedDomains).defined
       THEN Return(Invalid(validateDomain(url, opts.allowedDomains)))
     ELSE IF opts.blockPrivateIPs THEN Await(url)
     ELSE Return([valid |-> TRUE, error |-> NoErr, hasUrl |-> TRUE, url |-> url,
                  hasAddresses |-> FALSE, resolvedAddresses |-> <<>>])

validateURL(urlString, o) ==
  LET opts == defaultOptions(o)
      blockMetadata == opts.blockMetadataEndpoints
      url == ParseURL(urlString)
  IN IF ~url.ok THEN Return(Invalid(Err("Invalid URL format", 0)))
     ELSE IF validateProtocol(url).defined
       THEN Return(Invalid(validateProtocol(url)))
     ELSE IF isBlockedHostname(url.hostname, blockMetadata)
       THEN Return(Invalid(Err("Hostname is blocked", 0)))
     ELSE IF validatePort(url, opts.allowedPortsSet, opts.allowedPorts).defined
       THEN Return(Invalid(validatePort(url, opts.allowedPortsSet, opts.allowedPorts)))
     ELSE IF validateDomain(url, opts.allowedDomains).defined
       THEN Return(Invalid(validateDomain(url, opts.allowedDomains)))
     ELSE IF opts.blockPrivateIPs THEN Await(url)
     ELSE Return([valid |-> TRUE, error |-> NoErr, hasUrl |-> TRUE, url |-> url,
                  hasAddresses |-> FALSE, resolvedAddresses |-> <<>>])

(***************************************************************************)
(* validateDNS after the await: `settle` is how the promise of withTimeout *)
(* settled, with the answer list (kind "value") or with a rejection (kind  *)
(* "error" from the resolver, "timeout" from the timer).                   *)
(***************************************************************************)
Value(addresses) == [kind |-> "value", addresses |-> addresses]
Rejected(kind) == [kind |-> kind, addresses |-> <<>>]

\* an element of the answer of dns.promises.lookup(hostname, {all: true})
LookupAddress(address) == [address |-> address, family |-> address.fam]

\* addresses.map(({ address }) => address)
RECURSIVE MapAddress(_)
MapAddress(addresses) ==
  IF addresses = <<>> THEN <<>>
  ELSE <<Head(addresses).address>> \o MapAddress(Tail(addresses))

\* validateDNS returning the answer without its last address
validateDNS_dropLast(settle, blockMetadataEndpoints) ==
  IF settle.kind = "value"
    THEN IF \E i \in 1..Len(settle.addresses) :
              isBlockedIP(settle.addresses[i].address, blockMetadataEndpoints)
           THEN [error |-> Err("URL resolves to a blocked IP address", 0),
                 hasAddresses |-> FALSE, addresses |-> <<>>]
           ELSE [error |-> NoErr, hasAddresses |-> TRUE,
                 addresses |->
                   MapAddress(SubSeq(settle.addresses, 1, Len(settle.addresses) - 1))]
    ELSE [error |-> Err("Failed to resolve hostname", 0),
          hasAddresses |-> FALSE, addresses |-> <<>>]

\* validateDNS testing only the first address of the answer
validateDNS_firstOnly(settle, blockMetadataEndpoints) ==
  IF settle.kind = "value"
    THEN IF Len(settle.addresses) > 0
              /\ isBlockedIP(settle.addresses[1].address, blockMetadataEndpoints)
           THEN [error |-> Err("URL resolves to a blocked IP address", 0),
                 hasAddresses |-> FALSE, addresses |-> <<>>]
           ELSE [error |-> NoErr, hasAddresses |-> TRUE,
                 addresses |-> MapAddress(settle.addresses)]
    ELSE [error |-> Err("Failed to resolve hostname", 0),
          hasAddresses |-> FALSE, addresses |-> <<>>]

validateDNS(settle, blockMetadataEndpoints) ==
  IF settle.kind = "value"
    THEN IF \E i \in 1..Len(settle.addresses) :
              isBlockedIP(settle.addresses[i].address, blockMetadataEndpoints)
           THEN [error |-> Err("URL resolves to a blocked IP address", 0),
                 hasAddresses |-> FALSE, addresses |-> <<>>]
           ELSE [error |-> NoErr, hasAddresses |-> TRUE,
                 addresses |-> MapAddress(settle.addresses)]
    ELSE [error |-> Err("Failed to resolve hostname", 0),
          hasAddresses |-> FALSE, addresses |-> <<>>]

\* validateURL resumed with validateDNS's return value
validateURLResume(url, dnsResult) ==
  IF dnsResult.error.defined THEN Invalid(dnsResult.error)
  ELSE [valid |-> TRUE, error |-> NoErr, hasUrl |-> TRUE, url |-> url,
        hasAddresses |-> dnsResult.hasAddresses,
        resolvedAddresses |-> dnsResult.addresses]

(***************************************************************************)
(* The pinned agent.                                                       *)
(***************************************************************************)
NoAgent == [defined |-> FALSE, addresses |-> <<>>, https |-> FALSE]

createPinnedAgent(url, hasAddresses, resolvedAddresses) ==
  IF ~hasAddresses \/ Len(resolvedAddresses) = 0 THEN NoAgent
  ELSE [defined |-> TRUE, addresses |-> resolvedAddresses,
        https |-> (url.protocol = "https:")]

\* the lookup function made by createPinnedLookup: the address it hands to the
\* callback and the new value of its `index`
createPinnedLookup(addresses, index) ==
  [address |-> addresses[(index % Len(addresses)) + 1], index |-> index + 1]



(***************************************************************************)
(* License signing.  Values of a payload field are JSON values; a payload  *)
(* is an object with its fields in insertion order, undefined, or an       *)
(* object JSON.stringify cannot serialize (a cycle).                       *)
(***************************************************************************)
Str(text) == [t |-> "string", s |-> text, n |-> 0]
Bool(b) == [t |-> "boolean", s |-> IF b THEN "true" ELSE "false", n |-> 0]
Num(n) == [t |-> "number", s |-> "", n |-> n]
Undef == [t |-> "undefined", s |-> "", n |-> 0]

Field(k, v) == [k |-> k, v |-> v]
Object(fields) == [kind |-> "object", fields |-> fields]
UndefinedPayload == [kind |-> "undefined", fields |-> <<>>]
CircularPayload == [kind |-> "circular", fields |-> <<>>]

IsDefinedField(f) == f.v.t # "undefined"

\* JSON.stringify: the members in insertion order, members whose value is
\* undefined left out; undefined for undefined; a TypeError for a cycle
JSONstringify(payload) ==
  CASE payload.kind = "object" ->
         [threw |-> FALSE, defined |-> TRUE,
          text |-> SelectSeq(payload.fields, IsDefinedField)]
    [] payload.kind = "undefined" ->
         [threw |-> FALSE, defined |-> FALSE, text |-> <<>>]
    [] OTHER -> [threw |-> TRUE, defined |-> FALSE, text |-> <<>>]

\* Signatures are strings: the hex digest of an HMAC (64 characters), some
\* other string of a given length, or undefined.
Digest(key, text) == [kind |-> "hex", key |-> key, msg |-> text, len |-> 64]
OtherString(len) == [kind |-> "str", key |-> "", msg |-> <<>>, len |-> len]
UndefinedSig == [kind |-> "undefined", key |-> "", msg |-> <<>>, len |-> 0]

Signed(sig) == [threw |-> FALSE, sig |-> sig]
SignThrew == [threw |-> TRUE, sig |-> UndefinedSig]

\* crypto.createHmac('sha256', secret).update(JSON.stringify(payload)).digest('hex');
\* update(undefined) throws
createHmac(secret, payload) ==
  LET json == JSONstringify(payload)
  IN IF json.threw \/ ~json.defined THEN SignThrew
     ELSE Signed(Digest(secret, json.text))

DEV_SECRET == "dev-secret-change-in-prod"

\* process.env.LICENSE_SIGNING_SECRET || '...-dev-secret-change-in-prod'
SecretOrFallback(e) ==
  IF e.LICENSE_SIGNING_SECRET # "" THEN e.LICENSE_SIGNING_SECRET ELSE DEV_SECRET

\* secret.includes('...-dev-secret-change-in-prod')
IncludesDevSecret(secret) == secret = DEV_SECRET

Returns(b) == [threw |-> FALSE, value |-> b]
Throws == [threw |-> TRUE, value |-> FALSE]

\* Buffer.from(signature || '', 'utf8').length
OrEmpty(signature) ==
  IF signature.kind = "undefined" \/ signature.len = 0 THEN OtherString(0) ELSE signature

\* crypto.timingSafeEqual: a RangeError for buffers of different length
timingSafeEqual(a, b) ==
  IF a.len # b.len THEN Throws ELSE Returns(a = b)

(***************************************************************************)
(* License keys: PREFIX-XXXX-XXXX-XXXX-XXXX cut from a sha256 of what the   *)
(* key was made for, the legacy PREFIX-TIER-... form, any other string, or *)
(* no key.                                                                 *)
(***************************************************************************)
StripeKey(customerId, tier, isFounder) ==
  [fmt |-> "stripe", of |-> <<customerId, tier, Bool(isFounder).s>>]
LegacyKey(tier) == [fmt |-> "legacy", of |-> <<tier>>]
OtherKey == [fmt |-> "other", of |-> <<>>]
NoKey == [fmt |-> "missing", of |-> <<>>]

\* license.json: absent, not JSON, or a record
FileRecord(tier, licenseKey, email, expires, payload, signature) ==
  [kind |-> "record", tier |-> tier, licenseKey |-> licenseKey, email |-> email,
   expires |-> expires, payload |-> payload, signature |-> signature]
AbsentFile ==
  [kind |-> "absent", tier |-> "", licenseKey |-> NoKey, email |-> "",
   expires |-> 0, payload |-> UndefinedPayload, signature |-> UndefinedSig]
CorruptFile == [AbsentFile EXCEPT !.kind = "corrupt"]

(***************************************************************************)
(* stripe-integration.js                                                   *)
(***************************************************************************)
getSigningSecret(e) ==
  LET secret == SecretOrFallback(e)
  IN IF e.NODE_ENV = "production" /\ IncludesDevSecret(secret)
       THEN [threw |-> TRUE, secret |-> ""]
       ELSE [threw |-> FALSE, secret |-> secret]

signLicensePayload(e, payload) ==
  IF getSigningSecret(e).threw THEN SignThrew
  ELSE createHmac(getSigningSecret(e).secret, payload)

LicensePayload(customerId, tier, isFounder, issued) ==
  Object(<< Field("customerId", Str(customerId)), Field("tier", Str(tier)),
            Field("isFounder", Bool(isFounder)), Field("issued", Num(issued)),
            Field("version", Str("1.0")) >>)

\* the key hashed from the issue time as well
generateLicenseKey_timestampKey(e, customerId, tier, isFounder, clock) ==
  LET payload == LicensePayload(customerId, tier, isFounder, clock)
      signature == signLicensePayload(e, payload)
  IN [threw |-> signature.threw,
      licenseKey |-> [fmt |-> "stripe",
                      of |-> <<customerId, tier, Bool(isFounder).s,
                               IF clock = 0 THEN "t0" ELSE "later">>],
      payload |-> payload,
      signature |-> signature.sig]

\* the key is the formatted prefix of sha256(`${customerId}:${tier}:${isFounder}:...`)
generateLicenseKey(e, customerId, tier, isFounder, clock) ==
  LET payload == LicensePayload(customerId, tier, isFounder, clock)
      signature == signLicensePayload(e, payload)
  IN [threw |-> signature.threw,
      licenseKey |-> StripeKey(customerId, tier, isFounder),
      payload |-> payload,
      signature |-> signature.sig]

\* StripeIntegration.verifyLicenseSignature: no try/catch
Stripe_verifyLicenseSignature(e, payload, signature) ==
  LET expected == signLicensePayload(e, payload)
  IN IF expected.threw THEN Throws
     ELSE IF OrEmpty(signature).len # expected.sig.len THEN Returns(FALSE)
     ELSE timingSafeEqual(OrEmpty(signature), expected.sig)

(***************************************************************************)
(* licensing.js                                                            *)
(***************************************************************************)
\* a verifier that compares the lengths of the two buffers and nothing else
verifyLicenseSignature_lengthOnly(e, payload, signature) ==
  LET secret == SecretOrFallback(e)
      expected == createHmac(secret, payload)
  IN IF e.NODE_ENV = "production" /\ IncludesDevSecret(secret) THEN Returns(FALSE)
     ELSE IF expected.threw THEN Returns(FALSE)
     ELSE Returns(OrEmpty(signature).len = expected.sig.len)

\* the whole body is inside try { ... } catch { return false }
verifyLicenseSignature(e, payload, signature) ==
  LET secret == SecretOrFallback(e)
      expected == createHmac(secret, payload)
  IN IF e.NODE_ENV = "production" /\ IncludesDevSecret(secret) THEN Returns(FALSE)
     ELSE IF expected.threw THEN Returns(FALSE)
     ELSE IF OrEmpty(signature).len # expected.sig.len THEN Returns(FALSE)
     ELSE IF timingSafeEqual(OrEmpty(signature), expected.sig).threw THEN Returns(FALSE)
     ELSE timingSafeEqual(OrEmpty(signature), expected.sig)

LICENSE_TIERS == {"FREE", "STARTER", "PRO", "ENTERPRISE"}

ApiCalls(n) == [unlimited |-> FALSE, n |-> n]
Unlimited == [unlimited |-> TRUE, n |-> 0]

FEATURES ==
  [tier \in LICENSE_TIERS |->
     CASE tier = "FREE" ->
            [coreFeature |-> "basic", apiCalls |-> ApiCalls(100),
             advancedFeatures |-> FALSE, customIntegrations |-> FALSE,
             prioritySupport |-> FALSE]
       [] tier = "STARTER" ->
            [coreFeature |-> "starter", apiCalls |-> ApiCalls(1000),
             advancedFeatures |-> FALSE, customIntegrations |-> FALSE,
             prioritySupport |-> FALSE]
       [] tier = "PRO" ->
            [coreFeature |-> "premium", apiCalls |-> ApiCalls(10000),
             advancedFeatures |-> TRUE, customIntegrations |-> FALSE,
             prioritySupport |-> TRUE]
       [] OTHER ->
            [coreFeature |-> "enterprise", apiCalls |-> Unlimited,
             advancedFeatures |-> TRUE, customIntegrations |-> TRUE,
             prioritySupport |-> TRUE]]

\* String.prototype.toUpperCase on the tier strings a license file may hold
toUpperCase(tier) ==
  CASE tier = "pro" -> "PRO"
    [] tier = "enterprise" -> "ENTERPRISE"
    [] OTHER -> tier

\* the Stripe format always passes; the legacy format must carry the tier
validateLicenseKey(key, tier) ==
  \/ key.fmt = "stripe"
  \/ key.fmt = "legacy" /\ key.of = <<toUpperCase(tier)>>

LicenseInfo(tier, error, how) ==
  [tier |-> tier, valid |-> TRUE, error |-> error, how |-> how]

SignatureFailure ==
  "License signature verification failed - license may have been tampered with"

\* getLicenseInfo without the expiration check
getLicenseInfo_noExpiry(e, developer, file, clock) ==
  IF developer THEN LicenseInfo("PRO", "", "developer")
  ELSE IF file.kind = "absent" THEN LicenseInfo("FREE", "", "")
  ELSE IF file.kind = "corrupt" THEN LicenseInfo("FREE", "License read error", "")
  ELSE IF file.tier = "" \/ file.licenseKey.fmt = "missing" \/ file.email = ""
    THEN LicenseInfo("FREE", "Invalid license format", "")
  ELSE IF file.payload.kind # "undefined" /\ OrEmpty(file.signature).len # 0
    THEN IF verifyLicenseSignature(e, file.payload, file.signature).value
           THEN LicenseInfo(file.tier, "", "signed")
           ELSE LicenseInfo("FREE", SignatureFailure, "")
  ELSE IF validateLicenseKey(file.licenseKey, file.tier)
    THEN LicenseInfo(file.tier, "", "legacy")
  ELSE LicenseInfo("FREE", "Invalid license key", "")

\* how is "developer", "signed" or "legacy" for the results that carry
\* isDeveloper, signed or legacy, and "" for the others
getLicenseInfo(e, developer, file, clock) ==
  IF developer THEN LicenseInfo("PRO", "", "developer")
  ELSE IF file.kind = "absent" THEN LicenseInfo("FREE", "", "")
  ELSE IF file.kind = "corrupt" THEN LicenseInfo("FREE", "License read error", "")
  ELSE IF file.tier = "" \/ file.licenseKey.fmt = "missing" \/ file.email = ""
    THEN LicenseInfo("FREE", "Invalid license format", "")
  ELSE IF file.expires # 0 /\ file.expires < clock
    THEN LicenseInfo("FREE", "License expired", "")
  ELSE IF file.payload.kind # "undefined" /\ OrEmpty(file.signature).len # 0
    THEN IF verifyLicenseSignature(e, file.payload, file.signature).value
           THEN LicenseInfo(file.tier, "", "signed")
           ELSE LicenseInfo("FREE", SignatureFailure, "")
  ELSE IF validateLicenseKey(file.licenseKey, file.tier)
    THEN LicenseInfo(file.tier, "", "legacy")
  ELSE LicenseInfo("FREE", "Invalid license key", "")

\* FEATURES[license.tier] || FEATURES[LICENSE_TIERS.FREE]
tierFeatures(license) ==
  IF license.tier \in LICENSE_TIERS THEN FEATURES[license.tier] ELSE FEATURES["FREE"]

FeatureNames == {"advancedFeatures", "customIntegrations", "prioritySupport", "smartFeature"}

\* tierFeatures[featureName] || false
hasFeature(e, developer, file, clock, featureName) ==
  LET features == tierFeatures(getLicenseInfo(e, developer, file, clock))
  IN CASE featureName = "advancedFeatures" -> features.advancedFeatures
       [] featureName = "customIntegrations" -> features.customIntegrations
       [] featureName = "prioritySupport" -> features.prioritySupport
       [] OTHER -> FALSE

getCoreFeatureLevel(e, developer, file, clock) ==
  tierFeatures(getLicenseInfo(e, developer, file, clock)).coreFeature

getApiLimit(e, developer, file, clock) ==
  tierFeatures(getLicenseInfo(e, developer, file, clock)).apiCalls

(***************************************************************************)
(* license-validator.js                                                    *)
(***************************************************************************)
signPayload(e, payload) == createHmac(SecretOrFallback(e), payload)

\* signPayload is called outside the try; Buffer.from(undefined) and a length
\* mismatch in timingSafeEqual throw inside it
verifySignature(e, payload, signature) ==
  LET expected == signPayload(e, payload)
  IN IF expected.threw THEN Throws
     ELSE IF signature.kind = "undefined" THEN Returns(FALSE)
     ELSE IF timingSafeEqual(signature, expected.sig).threw THEN Returns(FALSE)
     ELSE timingSafeEqual(signature, expected.sig)

ValidatorPayload(licenseData, issued) ==
  Object(<< Field("customerId", licenseData.customerId),
            Field("tier", Str(licenseData.tier)),
            Field("isFounder", Bool(licenseData.isFounder)),
            Field("email", Str(licenseData.email)),
            Field("issued", Num(issued)), Field("version", Str("1.0")) >>)

\* LicenseValidator.saveLicense: the record written, or the failure caught
saveLicense(e, licenseData, clock) ==
  LET payload == ValidatorPayload(licenseData, clock)
      signature == signPayload(e, payload)
  IN IF signature.threw
       THEN [success |-> FALSE, file |-> AbsentFile, signature |-> UndefinedSig]
       ELSE [success |-> TRUE,
             file |-> FileRecord(licenseData.tier, licenseData.licenseKey,
                                 licenseData.email, 0, payload, signature.sig),
             signature |-> signature.sig]

(***************************************************************************)
(* Inputs of the /fetch route.                                             *)
(***************************************************************************)
Protocols == {"http:", "https:", "ftp:"}
Ports == {NoPort, 443, 8080, 22}

NameHosts ==
  { Name(<<"example", "com">>), Name(<<"api", "example", "com">>),
    Name(<<"evil", "test">>), Name(<<"localhost">>), UpperName(<<"localhost">>),
    Name(<<"foo", "localhost">>), Name(<<"metadata", "google", "internal">>),
    Name(<<"localhost", "localdomain">>), Name(<<"kubernetes", "default">>),
    Name(<<"kubernetes", "default", "svc">>),
    UpperName(<<"api", "kubernetes", "default", "svc">>), Name(<<"metadata">>) }
LiteralHosts ==
  { Literal(a, b, 0, 1) : a \in {10, 127, 172, 192, 8}, b \in {0, 16, 31, 32, 168} }
  \cup { Literal(169, 254, 169, 254), Literal(169, 254, 0, 1), Literal(93, 184, 216, 34) }
Hosts == NameHosts \cup LiteralHosts

UrlParams ==
  { MissingUrl, ArrayUrl, Malformed }
  \cup { RawUrl(p, h, n) : p \in Protocols, h \in Hosts, n \in Ports }

\* the Authorization header: none or no bearer token, a token jwt.verify
\* rejects, an expired token, a token that verifies but carries no numeric
\* userId, a token that verifies
AuthHeaders == {"missing", "invalid", "expired", "badPayload", "valid"}


OptionValues ==
  [allowedDomains : {Unset(<<>>), Set(<<Name(<<"example", "com">>)>>)},
   allowedPorts : {Unset(<<>>), Set(<<443>>), Set(<<22, 8080>>)},
   blockPrivateIPs : {Unset(TRUE), Set(TRUE), Set(FALSE)},
   blockMetadataEndpoints : {Unset(TRUE), Set(FALSE)}]

\* the addresses a resolver may answer with
AddressPool ==
  { V4(93, 184, 216, 34), V4(8, 8, 8, 8), V4(10, 0, 0, 1),
    V4(169, 254, 169, 254), V6("::1") }

RECURSIVE SeqsUpTo(_, _)
SeqsUpTo(S, n) ==
  IF n = 0 THEN {<<>>}
  ELSE LET shorter == SeqsUpTo(S, n - 1)
       IN shorter \cup { Append(q, x) : q \in { r \in shorter : Len(r) = n - 1 }, x \in S }

\* dns.promises.lookup(hostname, {all: true}): an IP literal is answered with
\* itself, a name with whatever the resolver says
Answers(hostname) ==
  IF hostname.kind = "ip4"
    THEN { << LookupAddress([fam |-> 4, o |-> hostname.ip, s |-> ""]) >> }
    ELSE SeqsUpTo({ LookupAddress(a) : a \in AddressPool }, MaxAnswers)

UpstreamStatus == {200, 500}

(***************************************************************************)
(* State of one request.                                                   *)
(***************************************************************************)
NoReqState ==
  [hasUrl |-> FALSE, validatedUrl |-> NoUrl, hasAddresses |-> FALSE,
   validatedUrlAddresses |-> <<>>, validatedUrlAgent |-> NoAgent]

NoReturn == [returned |-> FALSE, value |-> NoResult]
Returned(r) == [returned |-> TRUE, value |-> r]

Response(status, error, details) ==
  [status |-> status, error |-> error, details |-> details]

AuthFailure(h) ==
  CASE h = "missing" -> Response(401, "Access token required", NoErr)
    [] h = "invalid" -> Response(401, "Invalid token", NoErr)
    [] h = "expired" -> Response(401, "Token expired", NoErr)
    [] OTHER -> Response(403, "Invalid token payload", NoErr)

Lookup(state, addresses) == [state |-> state, addresses |-> addresses]

\* one validateURL call and the request it belongs to: its arguments, the
\* locals of validateURL and validateDNS, the agent made for it and the
\* `index` of that agent's lookup closure
IdleCall ==
  [pc |-> "idle", urlString |-> MissingUrl,
   options |-> [allowedDomains |-> Unset(<<>>), allowedPorts |-> Unset(<<>>),
                blockPrivateIPs |-> Unset(TRUE), blockMetadataEndpoints |-> Unset(TRUE)],
   url |-> NoUrl, lookup |-> Lookup("none", <<>>), timer |-> "none",
   result |-> NoReturn, agent |-> NoAgent, index |-> 0, connects |-> <<>>]

NumCalls == 2      \* requests in flight at once
CallIds == 1..NumCalls
NoCalls == [i \in CallIds |-> IdleCall]

\* a promise: pending, or settled with a value (status, body length) or a reason
PendingPromise == [state |-> "pending", reason |-> "", status |-> 0, body |-> 0]

\* the /fetch handler before it runs
IdleFetch ==
  [pc |-> "idle", requested |-> FALSE, callback |-> FALSE, statusCode |-> 0,
   received |-> 0, size |-> 0, chunks |-> <<>>,
   ended |-> FALSE, errored |-> FALSE, destroyed |-> FALSE,
   promise |-> PendingPromise, sent |-> <<>>]

\* what handleWebhook returned (or that it threw) and what it ran
HookResult(threw, success, error, handler, generated) ==
  [threw |-> threw, success |-> success, error |-> error,
   handler |-> handler, generated |-> generated]
NoHookResult == HookResult(FALSE, FALSE, "", "none", FALSE)

\* no webhook request in progress
NoWebhook ==
  [pc |-> "idle", method |-> "", signature |-> "", type |-> "", metadata |-> "",
   STRIPE_SECRET_KEY |-> FALSE, STRIPE_WEBHOOK_SECRET |-> FALSE,
   result |-> NoHookResult, responses |-> <<>>]

\* _metadata of the license database: absent, or with its totalLicenses and
\* sha256 members, either of which may be missing
NoSha == [defined |-> FALSE, of |-> <<>>]
Metadata(hasTotal, totalLicenses, sha256) ==
  [present |-> TRUE, hasTotal |-> hasTotal, totalLicenses |-> totalLicenses,
   sha256 |-> sha256]
NoMetadata ==
  [present |-> FALSE, hasTotal |-> FALSE, totalLicenses |-> 0, sha256 |-> NoSha]

\* legitimate-licenses.json: absent, not JSON, or the JSON text of an object
\* with its _metadata and its license members in order
DbFile(metadata, licenses) ==
  [kind |-> "db", metadata |-> metadata, licenses |-> licenses]
AbsentDb == [kind |-> "absent", metadata |-> NoMetadata, licenses |-> <<>>]
CorruptDb == [kind |-> "corrupt", metadata |-> NoMetadata, licenses |-> <<>>]
\* the JSON text `null`
NullDb == [kind |-> "null", metadata |-> NoMetadata, licenses |-> <<>>]

\* what the server answered: a network error or the abort after 10 s, a
\* status outside 2xx, a body that is not JSON, the JSON value null, or a
\* JSON object
FetchFailed(kind) == [kind |-> kind, metadata |-> NoMetadata, licenses |-> <<>>]
FetchedObject(metadata, licenses) ==
  [kind |-> "object", metadata |-> metadata, licenses |-> licenses]
NoResponse == FetchFailed("none")

NoDbCall ==
  [op |-> "none", key |-> "", response |-> NoResponse, before |-> AbsentDb,
   success |-> FALSE, licenses |-> <<>>]

NoLicCall == [op |-> "none"]
NoIssued ==
  [threw |-> TRUE, licenseKey |-> NoKey,
   payload |-> UndefinedPayload, signature |-> UndefinedSig]

LicIdle ==
  /\ env = [NODE_ENV |-> "development", LICENSE_SIGNING_SECRET |-> ""]
  /\ devMode = FALSE
  /\ licenseFile = AbsentFile
  /\ now = 0
  /\ issuedLic = NoIssued
  /\ lastCall = NoLicCall

Init ==
  /\ pc = "idle"
  /\ options \in OptionValues
  /\ req = [auth |-> "missing", url |-> MissingUrl]
  /\ parsed = NoUrl
  /\ dnsCalls = 0
  /\ lookup = Lookup("none", <<>>)
  /\ timer = "none"
  /\ settled = 0
  /\ result = NoReturn
  /\ nextCalls = 0
  /\ reqState = NoReqState
  /\ agentIndex = 0
  /\ connects = <<>>
  /\ reResolved = FALSE
  /\ responses = <<>>
  /\ LicIdle
  /\ calls = NoCalls
  /\ fetch = IdleFetch
  /\ webhook = NoWebhook
  /\ dbFile = AbsentDb
  /\ dbCall = NoDbCall

(***************************************************************************)
(* authenticateToken: a request arrives; without a bearer token that        *)
(* verifies it is answered 401, otherwise next() runs ssrfProtection.      *)
(***************************************************************************)
\* a route without the authentication check: every request goes on
authenticateToken_noCheck ==
  /\ pc = "idle"
  /\ \E h \in AuthHeaders, u \in UrlParams : req' = [auth |-> h, url |-> u]
  /\ pc' = "ssrf"
  /\ responses' = <<>>
  /\ parsed' = NoUrl
  /\ dnsCalls' = 0
  /\ lookup' = Lookup("none", <<>>)
  /\ timer' = "none"
  /\ settled' = 0
  /\ result' = NoReturn
  /\ nextCalls' = 0
  /\ reqState' = NoReqState
  /\ agentIndex' = 0
  /\ connects' = <<>>
  /\ reResolved' = FALSE
  /\ UNCHANGED <<options, nonUrlVars>>

authenticateToken ==
  /\ pc = "idle"
  /\ \E h \in AuthHeaders, u \in UrlParams :
       /\ req' = [auth |-> h, url |-> u]
       /\ IF h = "valid"
            THEN pc' = "ssrf" /\ responses' = <<>>
            ELSE /\ pc' = "done"
                 /\ responses' = << AuthFailure(h) >>
  /\ parsed' = NoUrl
  /\ dnsCalls' = 0
  /\ lookup' = Lookup("none", <<>>)
  /\ timer' = "none"
  /\ settled' = 0
  /\ result' = NoReturn
  /\ nextCalls' = 0
  /\ reqState' = NoReqState
  /\ agentIndex' = 0
  /\ connects' = <<>>
  /\ reResolved' = FALSE
  /\ UNCHANGED <<options, nonUrlVars>>

(***************************************************************************)
(* ssrfProtection after validateURL returned `r`: answer 400, or attach    *)
(* the validated URL, its addresses and the pinned agent and call next().  *)
(***************************************************************************)
\* ssrfProtection answering 400 without returning: next() runs all the same
ssrfContinue_alwaysNext(r) ==
  /\ result' = Returned(r)
  /\ responses' = IF r.valid THEN responses
                  ELSE Append(responses, Response(400, "Invalid URL", r.error))
  /\ reqState' =
       IF r.valid
         THEN [hasUrl |-> r.hasUrl, validatedUrl |-> r.url,
               hasAddresses |-> r.hasAddresses,
               validatedUrlAddresses |-> r.resolvedAddresses,
               validatedUrlAgent |->
                 createPinnedAgent(r.url, r.hasAddresses, r.resolvedAddresses)]
         ELSE reqState
  /\ nextCalls' = nextCalls + 1
  /\ pc' = "handler"

ssrfContinue(r) ==
  /\ result' = Returned(r)
  /\ IF ~r.valid
       THEN /\ responses' = Append(responses, Response(400, "Invalid URL", r.error))
            /\ pc' = "done"
            /\ UNCHANGED <<reqState, nextCalls>>
       ELSE /\ reqState' =
                 [hasUrl |-> r.hasUrl, validatedUrl |-> r.url,
                  hasAddresses |-> r.hasAddresses,
                  validatedUrlAddresses |-> r.resolvedAddresses,
                  validatedUrlAgent |->
                    IF r.hasUrl
                      THEN createPinnedAgent(r.url, r.hasAddresses, r.resolvedAddresses)
                      ELSE NoAgent]
            /\ nextCalls' = nextCalls + 1
            /\ pc' = "handler"
            /\ UNCHANGED responses

\* the middleware up to the first await of a pending lookup
ssrfProtection ==
  /\ pc = "ssrf"
  /\ IF req.url.kind \in {"missing", "array"}
       THEN /\ nextCalls' = nextCalls + 1
            /\ pc' = "handler"
            /\ UNCHANGED <<parsed, dnsCalls, lookup, timer, result, reqState, responses>>
       ELSE LET v == validateURL(req.url, options)
            IN IF v.step = "return"
                 THEN /\ ssrfContinue(v.result)
                      /\ UNCHANGED <<parsed, dnsCalls, lookup, timer>>
               ELSE IF v.step = "throw"
                 THEN \* the async middleware rejects; Express answers 500
                      /\ responses' = Append(responses,
                             Response(500, "Internal Server Error", NoErr))
                      /\ pc' = "done"
                      /\ UNCHANGED <<parsed, dnsCalls, lookup, timer, result,
                                     reqState, nextCalls>>
                 ELSE /\ parsed' = v.url
                      /\ dnsCalls' = dnsCalls + 1
                      /\ lookup' = Lookup("pending", <<>>)
                      /\ timer' = "armed"
                      /\ pc' = "dns"
                      /\ UNCHANGED <<result, reqState, nextCalls, responses>>
  /\ UNCHANGED <<options, req, settled, agentIndex, connects, reResolved, nonUrlVars>>

(***************************************************************************)
(* withTimeout: the race of the lookup against the 2000 ms timer.          *)
(***************************************************************************)
\* withTimeout whose timer callback does not reject the promise
withTimeout_noReject(settle) ==
  IF settle.kind = "timeout"
    THEN UNCHANGED <<settled, result, responses, pc, reqState, nextCalls>>
    ELSE /\ settled' = settled + 1
         /\ ssrfContinue(validateURLResume(parsed,
              validateDNS(settle, defaultOptions(options).blockMetadataEndpoints)))

\* the promise of withTimeout settles with `settle`; validateDNS, validateURL
\* and ssrfProtection run on
withTimeout(settle) ==
  /\ settled' = settled + 1
  /\ ssrfContinue(validateURLResume(parsed,
       validateDNS(settle, defaultOptions(options).blockMetadataEndpoints)))

\* the lookup answers before the timer fires: clearTimeout, resolve(value)
LookupAnswers ==
  /\ pc = "dns" /\ lookup.state = "pending" /\ timer = "armed"
  /\ \E a \in Answers(parsed.hostname) :
       /\ withTimeout(Value(a))
       /\ lookup' = Lookup("answered", a)
  /\ timer' = "cleared"
  /\ UNCHANGED <<options, req, parsed, dnsCalls, agentIndex, connects, reResolved, nonUrlVars>>

\* the resolver reports an error before the timer fires: clearTimeout, reject(error)
LookupFails ==
  /\ pc = "dns" /\ lookup.state = "pending" /\ timer = "armed"
  /\ withTimeout(Rejected("error"))
  /\ lookup' = Lookup("failed", <<>>)
  /\ timer' = "cleared"
  /\ UNCHANGED <<options, req, parsed, dnsCalls, agentIndex, connects, reResolved, nonUrlVars>>

\* the timer fires while the lookup is pending: reject(new Error('DNS lookup timeout'))
TimerFires ==
  /\ pc = "dns" /\ lookup.state = "pending" /\ timer = "armed"
  /\ withTimeout(Rejected("timeout"))
  /\ timer' = "fired"
  /\ UNCHANGED <<options, req, parsed, dnsCalls, lookup, agentIndex, connects,
                 reResolved, nonUrlVars>>

\* a late settlement that settles the promise of withTimeout a second time
LateLookupSettles_resumes ==
  /\ lookup.state = "pending" /\ timer = "fired"
  /\ \/ \E a \in Answers(parsed.hostname) :
          lookup' = Lookup("answered", a) /\ withTimeout(Value(a))
     \/ lookup' = Lookup("failed", <<>>) /\ withTimeout(Rejected("error"))
  /\ UNCHANGED <<options, req, parsed, dnsCalls, timer, agentIndex, connects,
                 reResolved, nonUrlVars>>

\* the lookup settles after the timer fired: clearTimeout and resolve/reject
\* act on a timer that has run and a promise that is settled
LateLookupSettles ==
  /\ lookup.state = "pending" /\ timer = "fired"
  /\ \/ \E a \in Answers(parsed.hostname) : lookup' = Lookup("answered", a)
     \/ lookup' = Lookup("failed", <<>>)
  /\ UNCHANGED <<pc, options, req, parsed, dnsCalls, timer, settled, result, nextCalls,
                 reqState, agentIndex, connects, reResolved, responses, nonUrlVars>>

(***************************************************************************)
(* The /fetch handler and requestText.                                     *)
(***************************************************************************)
fetchHandler ==
  /\ pc = "handler"
  /\ IF ~reqState.hasUrl
       THEN /\ responses' = Append(responses, Response(400, "URL is required", NoErr))
            /\ pc' = "done"
       ELSE /\ pc' = "fetching"
            /\ UNCHANGED responses
  /\ UNCHANGED <<options, req, parsed, dnsCalls, lookup, timer, settled, result,
                 nextCalls, reqState, agentIndex, connects, reResolved, nonUrlVars>>

\* the HTTP client opens a connection: with an agent it asks the agent's lookup,
\* without one it resolves the hostname itself
Connect ==
  /\ pc = "fetching"
  /\ Len(connects) < MaxConnects
  /\ IF reqState.validatedUrlAgent.defined
       THEN LET l == createPinnedLookup(reqState.validatedUrlAgent.addresses, agentIndex)
            IN /\ connects' = Append(connects, l.address)
               /\ agentIndex' = l.index
               /\ UNCHANGED reResolved
       ELSE /\ \E a \in AddressPool : connects' = Append(connects, a)
            /\ reResolved' = TRUE
            /\ UNCHANGED agentIndex
  /\ UNCHANGED <<pc, options, req, parsed, dnsCalls, lookup, timer, settled, result,
                 nextCalls, reqState, responses, nonUrlVars>>

\* requestText resolves and the handler forwards status and body
UpstreamResponds ==
  /\ pc = "fetching"
  /\ Len(connects) > 0
  /\ \E st \in UpstreamStatus : responses' = Append(responses, Response(st, "", NoErr))
  /\ pc' = "done"
  /\ UNCHANGED <<options, req, parsed, dnsCalls, lookup, timer, settled, result,
                 nextCalls, reqState, agentIndex, connects, reResolved, nonUrlVars>>

\* requestText rejects (req 'error') and the handler answers 502
UpstreamFails ==
  /\ pc = "fetching"
  /\ responses' = Append(responses, Response(502, "Request failed", NoErr))
  /\ pc' = "done"
  /\ UNCHANGED <<options, req, parsed, dnsCalls, lookup, timer, settled, result,
                 nextCalls, reqState, agentIndex, connects, reResolved, nonUrlVars>>

\* the response is sent; the next request finds nothing of this one
Finish ==
  /\ pc = "done"
  /\ pc' = "idle"
  /\ req' = [auth |-> "missing", url |-> MissingUrl]
  /\ parsed' = NoUrl
  /\ dnsCalls' = 0
  /\ lookup' = Lookup("none", <<>>)
  /\ timer' = "none"
  /\ settled' = 0
  /\ result' = NoReturn
  /\ nextCalls' = 0
  /\ reqState' = NoReqState
  /\ agentIndex' = 0
  /\ connects' = <<>>
  /\ reResolved' = FALSE
  /\ responses' = <<>>
  /\ UNCHANGED <<options, nonUrlVars>>

Next ==
  \/ authenticateToken
  \/ ssrfProtection
  \/ LookupAnswers
  \/ LookupFails
  \/ TimerFires
  \/ LateLookupSettles
  \/ fetchHandler
  \/ Connect
  \/ UpstreamResponds
  \/ UpstreamFails
  \/ Finish

Spec == Init /\ [][Next]_vars


\* timers that are due fire: the event loop runs the setTimeout callback
SpecLive == Spec /\ WF_vars(TimerFires)


(***************************************************************************)
(* Signing and verification: the operations of the three modules called    *)
(* one after another in one process environment.                           *)
(***************************************************************************)
Environments ==
  [NODE_ENV : {"production", "development"},
   LICENSE_SIGNING_SECRET : {"", "prod-secret-1", DEV_SECRET}]

CustomerIds == {"cus_1"}
PaidTiers == {"PRO", "ENTERPRISE"}

FieldAlternatives(f) ==
  CASE f.k = "customerId" -> {Str("cus_1"), Str("cus_2")} \ {f.v}
    [] f.k = "tier" -> {Str("FREE"), Str("PRO"), Str("ENTERPRISE")} \ {f.v}
    [] f.k = "isFounder" -> {Bool(TRUE), Bool(FALSE)} \ {f.v}
    [] f.k = "issued" -> {Num(f.v.n + 1)}
    [] f.k = "version" -> {Str("2.0")}
    [] OTHER -> {Str("other@example.com")} \ {f.v}

\* the payloads that differ from payload in the value of exactly one field
SingleFieldChanges(payload) ==
  UNION { { [payload EXCEPT !.fields[i].v = w] : w \in FieldAlternatives(payload.fields[i]) }
          : i \in 1..Len(payload.fields) }

\* the same members inserted in the opposite order
Reordered(payload) ==
  Object([i \in 1..Len(payload.fields) |->
            payload.fields[Len(payload.fields) + 1 - i]])

BasePayload ==
  IF issuedLic.threw THEN LicensePayload("cus_1", "PRO", FALSE, now)
  ELSE issuedLic.payload

VerifyPayloads ==
  {BasePayload} \cup SingleFieldChanges(BasePayload)
  \cup {Reordered(BasePayload), UndefinedPayload, CircularPayload}

VerifySignatures(payload) ==
  { issuedLic.signature,
    createHmac(SecretOrFallback(env), payload).sig,
    createHmac("other-secret", payload).sig,
    OtherString(64), OtherString(10), UndefinedSig }

LicCall(op, payload, signature, outcome, out) ==
  [op |-> op, payload |-> payload, signature |-> signature,
   threw |-> outcome.threw, value |-> outcome.value, out |-> out]

SigInit ==
  /\ pc = "idle"
  /\ options = [allowedDomains |-> Unset(<<>>), allowedPorts |-> Unset(<<>>),
                blockPrivateIPs |-> Unset(TRUE), blockMetadataEndpoints |-> Unset(TRUE)]
  /\ req = [auth |-> "missing", url |-> MissingUrl]
  /\ parsed = NoUrl
  /\ dnsCalls = 0
  /\ lookup = Lookup("none", <<>>)
  /\ timer = "none"
  /\ settled = 0
  /\ result = NoReturn
  /\ nextCalls = 0
  /\ reqState = NoReqState
  /\ agentIndex = 0
  /\ connects = <<>>
  /\ reResolved = FALSE
  /\ responses = <<>>
  /\ env \in Environments
  /\ devMode = FALSE
  /\ licenseFile = AbsentFile
  /\ now = 0
  /\ issuedLic = NoIssued
  /\ lastCall = NoLicCall
  /\ calls = NoCalls
  /\ fetch = IdleFetch
  /\ webhook = NoWebhook
  /\ dbFile = AbsentDb
  /\ dbCall = NoDbCall

\* StripeIntegration.generateLicenseKey(customerId, tier, isFounder)
GenerateLicenseKey ==
  \E customerId \in CustomerIds, tier \in PaidTiers, isFounder \in BOOLEAN :
    LET g == generateLicenseKey(env, customerId, tier, isFounder, now)
    IN /\ issuedLic' = IF g.threw THEN issuedLic ELSE g
       /\ lastCall' = LicCall("StripeIntegration.generateLicenseKey", g.payload,
                              UndefinedSig, [threw |-> g.threw, value |-> FALSE],
                              g.signature)
       /\ UNCHANGED <<nonLicVars, env, devMode, licenseFile, now>>

\* StripeIntegration.verifyLicenseSignature(payload, signature)
StripeVerify ==
  \E payload \in VerifyPayloads :
    \E signature \in VerifySignatures(payload) :
      /\ lastCall' = LicCall("StripeIntegration.verifyLicenseSignature", payload, signature,
                             Stripe_verifyLicenseSignature(env, payload, signature),
                             UndefinedSig)
      /\ UNCHANGED <<nonLicVars, env, devMode, licenseFile, now, issuedLic>>

\* licensing.verifyLicenseSignature(payload, signature)
LicensingVerify ==
  \E payload \in VerifyPayloads :
    \E signature \in VerifySignatures(payload) :
      /\ lastCall' = LicCall("licensing.verifyLicenseSignature", payload, signature,
                             verifyLicenseSignature(env, payload, signature),
                             UndefinedSig)
      /\ UNCHANGED <<nonLicVars, env, devMode, licenseFile, now, issuedLic>>

\* LicenseValidator.verifySignature(payload, signature)
ValidatorVerify ==
  \E payload \in VerifyPayloads :
    \E signature \in VerifySignatures(payload) :
      /\ lastCall' = LicCall("LicenseValidator.verifySignature", payload, signature,
                             verifySignature(env, payload, signature),
                             UndefinedSig)
      /\ UNCHANGED <<nonLicVars, env, devMode, licenseFile, now, issuedLic>>

SaveLicenseInputs ==
  { [licenseKey |-> StripeKey("cus_1", "PRO", FALSE), tier |-> "PRO",
     isFounder |-> FALSE, email |-> "user@example.com", customerId |-> c]
    : c \in {Str("cus_1"), Undef} }

\* LicenseValidator.saveLicense(licenseData)
ValidatorSaveLicense ==
  \E licenseData \in SaveLicenseInputs :
    LET saved == saveLicense(env, licenseData, now)
    IN /\ licenseFile' = IF saved.success THEN saved.file ELSE licenseFile
       /\ lastCall' = LicCall("LicenseValidator.saveLicense",
                              ValidatorPayload(licenseData, now), UndefinedSig,
                              [threw |-> FALSE, value |-> saved.success],
                              saved.signature)
       /\ UNCHANGED <<nonLicVars, env, devMode, now, issuedLic>>

SigNext ==
  \/ GenerateLicenseKey
  \/ StripeVerify
  \/ LicensingVerify
  \/ ValidatorVerify
  \/ ValidatorSaveLicense

SpecSig == SigInit /\ [][SigNext]_vars


(***************************************************************************)
(* Reading the license: licensing.js called against whatever license.json  *)
(* the machine holds, as the clock advances.                               *)
(***************************************************************************)
StoredPayloads == { LicensePayload("cus_1", tier, FALSE, 0) : tier \in PaidTiers }

\* the signatures a stored record may carry
StoredSignatures ==
  { createHmac(secret, LicensePayload("cus_1", "PRO", FALSE, 0)).sig
      : secret \in {DEV_SECRET, "prod-secret-1"} }
  \cup { OtherString(64), OtherString(10), OtherString(0), UndefinedSig }

LicenseFiles ==
  {AbsentFile, CorruptFile}
  \cup { FileRecord(tier, key, email, expires, payload, signature) :
           tier \in {"", "PRO", "ENTERPRISE", "pro"},
           key \in {NoKey, OtherKey, LegacyKey("PRO"), StripeKey("cus_1", "PRO", FALSE)},
           email \in {"", "user@example.com"},
           expires \in {0, 1},
           payload \in StoredPayloads \cup {UndefinedPayload},
           signature \in StoredSignatures }

LicInit ==
  /\ pc = "idle"
  /\ options = [allowedDomains |-> Unset(<<>>), allowedPorts |-> Unset(<<>>),
                blockPrivateIPs |-> Unset(TRUE), blockMetadataEndpoints |-> Unset(TRUE)]
  /\ req = [auth |-> "missing", url |-> MissingUrl]
  /\ parsed = NoUrl
  /\ dnsCalls = 0
  /\ lookup = Lookup("none", <<>>)
  /\ timer = "none"
  /\ settled = 0
  /\ result = NoReturn
  /\ nextCalls = 0
  /\ reqState = NoReqState
  /\ agentIndex = 0
  /\ connects = <<>>
  /\ reResolved = FALSE
  /\ responses = <<>>
  /\ env \in Environments
  /\ devMode \in BOOLEAN
  /\ licenseFile \in LicenseFiles
  /\ now = 0
  /\ issuedLic = NoIssued
  /\ lastCall = NoLicCall
  /\ calls = NoCalls
  /\ fetch = IdleFetch
  /\ webhook = NoWebhook
  /\ dbFile = AbsentDb
  /\ dbCall = NoDbCall

InfoCall(op, arg, ret) == [op |-> op, arg |-> arg, at |-> now, ret |-> ret]

GetLicenseInfo ==
  /\ lastCall' = InfoCall("getLicenseInfo", "",
                          getLicenseInfo(env, devMode, licenseFile, now))
  /\ UNCHANGED <<nonLicVars, env, devMode, licenseFile, now, issuedLic>>

HasFeature ==
  /\ \E featureName \in FeatureNames :
       lastCall' = InfoCall("hasFeature", featureName,
                            hasFeature(env, devMode, licenseFile, now, featureName))
  /\ UNCHANGED <<nonLicVars, env, devMode, licenseFile, now, issuedLic>>

GetCoreFeatureLevel ==
  /\ lastCall' = InfoCall("getCoreFeatureLevel", "",
                          getCoreFeatureLevel(env, devMode, licenseFile, now))
  /\ UNCHANGED <<nonLicVars, env, devMode, licenseFile, now, issuedLic>>

GetApiLimit ==
  /\ lastCall' = InfoCall("getApiLimit", "",
                          getApiLimit(env, devMode, licenseFile, now))
  /\ UNCHANGED <<nonLicVars, env, devMode, licenseFile, now, issuedLic>>

\* time passes
Tick ==
  /\ now < MaxClock
  /\ now' = now + 1
  /\ UNCHANGED <<nonLicVars, env, devMode, licenseFile, issuedLic, lastCall>>

LicNext ==
  \/ GetLicenseInfo
  \/ HasFeature
  \/ GetCoreFeatureLevel
  \/ GetApiLimit
  \/ Tick

SpecLic == LicInit /\ [][LicNext]_vars

(***************************************************************************)
(* Several requests in flight in one process.  Everything validateURL,     *)
(* validateDNS and createPinnedLookup write is a local or a closure        *)
(* variable of the call, kept here in the call's own record; the module    *)
(* level holds constants only.  A call is suspended at the await of its    *)
(* lookup and nowhere else, so the calls interleave at the steps below.    *)
(***************************************************************************)
ParInputs ==
  { [url |-> RawUrl("https:", Name(<<"example", "com">>), NoPort),
     options |-> IdleCall.options],
    [url |-> RawUrl("http:", Name(<<"api", "example", "com">>), 8080),
     options |-> [IdleCall.options EXCEPT !.blockMetadataEndpoints = Set(FALSE)]],
    [url |-> RawUrl("https:", Name(<<"localhost">>), NoPort),
     options |-> IdleCall.options],
    [url |-> RawUrl("https:", Name(<<"example", "com">>), NoPort),
     options |-> [IdleCall.options EXCEPT !.blockPrivateIPs = Set(FALSE)]] }

ParAnswers ==
  { << LookupAddress(V4(93, 184, 216, 34)), LookupAddress(V4(8, 8, 8, 8)) >>,
    << LookupAddress(V4(8, 8, 8, 8)) >>,
    << LookupAddress(V4(93, 184, 216, 34)), LookupAddress(V4(10, 0, 0, 1)) >> }

\* validateURL returns r to ssrfProtection, which makes the agent
CallReturns(c, r) ==
  [c EXCEPT !.pc = "done", !.result = Returned(r),
            !.agent = IF r.valid /\ r.hasUrl
                        THEN createPinnedAgent(r.url, r.hasAddresses, r.resolvedAddresses)
                        ELSE NoAgent]

\* validateURL(urlString, options) up to its return or its await
CallStarts(c, urlString, o) ==
  LET v == validateURL(urlString, o)
      started == [c EXCEPT !.urlString = urlString, !.options = o]
  IN IF v.step = "return" THEN CallReturns(started, v.result)
     ELSE IF v.step = "throw" THEN [started EXCEPT !.pc = "done"]
     ELSE [started EXCEPT !.pc = "dns", !.url = v.url,
                          !.lookup = Lookup("pending", <<>>), !.timer = "armed"]

\* the call resumes with how its own withTimeout promise settled
CallResumes(c, settle) ==
  CallReturns(c, validateURLResume(c.url,
    validateDNS(settle, defaultOptions(c.options).blockMetadataEndpoints)))

\* createPinnedLookup with one `index` at module level, shared by every agent
PinnedLookupCalled_moduleIndex(cs, i) ==
  LET l == createPinnedLookup(cs[i].agent.addresses, cs[1].index)
      connected == [cs EXCEPT ![i].connects = Append(@, l.address)]
  IN [connected EXCEPT ![1].index = l.index]

\* the lookup function of request i's agent is called for a connection:
\* `let index = 0` belongs to the closure createPinnedLookup returned
PinnedLookupCalled(cs, i) ==
  LET l == createPinnedLookup(cs[i].agent.addresses, cs[i].index)
  IN [cs EXCEPT ![i].connects = Append(@, l.address), ![i].index = l.index]

ParInit ==
  /\ LicIdle
  /\ pc = "idle"
  /\ options = IdleCall.options
  /\ req = [auth |-> "missing", url |-> MissingUrl]
  /\ parsed = NoUrl
  /\ dnsCalls = 0
  /\ lookup = Lookup("none", <<>>)
  /\ timer = "none"
  /\ settled = 0
  /\ result = NoReturn
  /\ nextCalls = 0
  /\ reqState = NoReqState
  /\ agentIndex = 0
  /\ connects = <<>>
  /\ reResolved = FALSE
  /\ responses = <<>>
  /\ calls = NoCalls
  /\ fetch = IdleFetch
  /\ webhook = NoWebhook
  /\ dbFile = AbsentDb
  /\ dbCall = NoDbCall

ParValidate(i) ==
  /\ calls[i].pc = "idle"
  /\ \E input \in ParInputs :
       calls' = [calls EXCEPT ![i] = CallStarts(@, input.url, input.options)]
  /\ UNCHANGED nonParVars

ParLookupAnswers(i) ==
  /\ calls[i].pc = "dns" /\ calls[i].lookup.state = "pending" /\ calls[i].timer = "armed"
  /\ \E a \in ParAnswers :
       calls' = [calls EXCEPT ![i] =
                   CallResumes([@ EXCEPT !.lookup = Lookup("answered", a),
                                         !.timer = "cleared"], Value(a))]
  /\ UNCHANGED nonParVars

ParLookupFails(i) ==
  /\ calls[i].pc = "dns" /\ calls[i].lookup.state = "pending" /\ calls[i].timer = "armed"
  /\ calls' = [calls EXCEPT ![i] =
                 CallResumes([@ EXCEPT !.lookup = Lookup("failed", <<>>),
                                       !.timer = "cleared"], Rejected("error"))]
  /\ UNCHANGED nonParVars

ParTimerFires(i) ==
  /\ calls[i].pc = "dns" /\ calls[i].lookup.state = "pending" /\ calls[i].timer = "armed"
  /\ calls' = [calls EXCEPT ![i] =
                 CallResumes([@ EXCEPT !.timer = "fired"], Rejected("timeout"))]
  /\ UNCHANGED nonParVars

\* the outbound request of call i opens a connection through its agent
ParConnect(i) ==
  /\ calls[i].pc = "done" /\ calls[i].agent.defined
  /\ Len(calls[i].connects) < MaxConnects
  /\ calls' = PinnedLookupCalled(calls, i)
  /\ UNCHANGED nonParVars

ParNext ==
  \E i \in CallIds :
    \/ ParValidate(i)
    \/ ParLookupAnswers(i)
    \/ ParLookupFails(i)
    \/ ParTimerFires(i)
    \/ ParConnect(i)

SpecPar == ParInit /\ [][ParNext]_vars

(***************************************************************************)
(* requestText and the /fetch handler, event by event.  The promise of     *)
(* requestText settles once: resolve and reject on a settled promise do    *)
(* nothing.  The upstream decides which events arrive; a response stream   *)
(* emits no 'data' after its 'end' or after an 'error'.                    *)
(***************************************************************************)
MAX_RESPONSE_BYTES == 1024 * 1024

MaxChunks == 3     \* most 'data' events of one response

ChunkLengths == {1, 524288, 1048576}

RECURSIVE SumLengths(_)
\* Buffer.concat(chunks).length
SumLengths(chunks) ==
  IF chunks = <<>> THEN 0 ELSE Head(chunks) + SumLengths(Tail(chunks))

resolve(promise, status, body) ==
  IF promise.state = "pending"
    THEN [state |-> "resolved", reason |-> "", status |-> status, body |-> body]
    ELSE promise

reject(promise, reason) ==
  IF promise.state = "pending"
    THEN [state |-> "rejected", reason |-> reason, status |-> 0, body |-> 0]
    ELSE promise

\* res.on('data') without the size check
onData_noLimit(f, length) ==
  [f EXCEPT !.size = f.size + length, !.chunks = Append(f.chunks, length)]

\* res.on('data', chunk => { size += chunk.length; if (size > MAX) {...; return}; chunks.push(chunk) })
onData(f, length) ==
  IF f.size + length > MAX_RESPONSE_BYTES
    THEN [f EXCEPT !.size = f.size + length, !.destroyed = TRUE,
                   !.promise = reject(f.promise, "Response too large")]
    ELSE [f EXCEPT !.size = f.size + length, !.chunks = Append(f.chunks, length)]

\* res.on('error', err => { req.destroy(); reject(err) })
onResError(f) ==
  [f EXCEPT !.destroyed = TRUE, !.errored = TRUE,
            !.promise = reject(f.promise, "socket hang up")]

\* res.on('end', () => resolve({status, headers, body}))
onEnd(f) ==
  [f EXCEPT !.ended = TRUE,
            !.promise = resolve(f.promise, f.statusCode, SumLengths(f.chunks))]

\* req.on('error', reject)
onReqError(f) ==
  [f EXCEPT !.errored = TRUE, !.promise = reject(f.promise, "connect ECONNREFUSED")]

FetchInit ==
  /\ LicIdle
  /\ pc = "idle"
  /\ options = IdleCall.options
  /\ req = [auth |-> "missing", url |-> MissingUrl]
  /\ parsed = NoUrl
  /\ dnsCalls = 0
  /\ lookup = Lookup("none", <<>>)
  /\ timer = "none"
  /\ settled = 0
  /\ result = NoReturn
  /\ nextCalls = 0
  /\ reqState = NoReqState
  /\ agentIndex = 0
  /\ connects = <<>>
  /\ reResolved = FALSE
  /\ responses = <<>>
  /\ calls = NoCalls
  /\ fetch = IdleFetch
  /\ webhook = NoWebhook
  /\ dbFile = AbsentDb
  /\ dbCall = NoDbCall

\* the handler runs after authenticateToken and ssrfProtection called next():
\* 400 without validatedUrl, otherwise requestText is called and awaited
FetchHandlerRuns ==
  /\ fetch.pc = "idle"
  /\ \E validatedUrl \in BOOLEAN :
       fetch' = IF validatedUrl
                  THEN [fetch EXCEPT !.pc = "awaiting", !.requested = TRUE]
                  ELSE [fetch EXCEPT !.pc = "responded",
                          !.sent = Append(@, Response(400, "URL is required", NoErr))]
  /\ UNCHANGED nonFetchVars

\* the response head arrives: the callback of client.request attaches the
\* listeners of res
ResponseArrives ==
  /\ fetch.requested /\ ~fetch.callback /\ ~fetch.errored
  /\ \E st \in UpstreamStatus :
       fetch' = [fetch EXCEPT !.callback = TRUE, !.statusCode = st]
  /\ UNCHANGED nonFetchVars

ResData ==
  /\ fetch.callback /\ ~fetch.ended /\ ~fetch.errored
  /\ fetch.received < MaxChunks
  /\ \E length \in ChunkLengths :
       fetch' = [onData(fetch, length) EXCEPT !.received = fetch.received + 1]
  /\ UNCHANGED nonFetchVars

ResEnd ==
  /\ fetch.callback /\ ~fetch.ended /\ ~fetch.errored
  /\ fetch' = onEnd(fetch)
  /\ UNCHANGED nonFetchVars

ResError ==
  /\ fetch.callback /\ ~fetch.ended /\ ~fetch.errored
  /\ fetch' = onResError(fetch)
  /\ UNCHANGED nonFetchVars

ReqError ==
  /\ fetch.requested /\ ~fetch.ended /\ ~fetch.errored
  /\ fetch' = onReqError(fetch)
  /\ UNCHANGED nonFetchVars

\* the await of requestText returns or throws: res.status(result.status)...send
\* or res.status(502).json({error: message})
FetchHandlerResumes ==
  /\ fetch.pc = "awaiting" /\ fetch.promise.state # "pending"
  /\ fetch' = [fetch EXCEPT !.pc = "responded",
                 !.sent = Append(@,
                    IF fetch.promise.state = "resolved"
                      THEN Response(fetch.promise.status, "", NoErr)
                      ELSE Response(502, fetch.promise.reason, NoErr))]
  /\ UNCHANGED nonFetchVars

FetchNext ==
  \/ FetchHandlerRuns
  \/ ResponseArrives
  \/ ResData
  \/ ResEnd
  \/ ResError
  \/ ReqError
  \/ FetchHandlerResumes

SpecFetch == FetchInit /\ [][FetchNext]_vars

\* the continuation of the await runs once the promise is settled; nothing
\* obliges the upstream to send anything
SpecFetchLive == SpecFetch /\ WF_vars(FetchHandlerResumes)

(***************************************************************************)
(* The Stripe webhook: stripe-webhook.js handleRequest and                 *)
(* StripeIntegration.handleWebhook.  stripe.webhooks.constructEvent is the *)
(* library's: it returns the event when the stripe-signature header is a   *)
(* valid signature of the raw body under the webhook secret and throws     *)
(* otherwise.                                                              *)
(***************************************************************************)
HookMethods == {"POST", "GET"}
HookSignatures == {"valid", "invalid", "missing"}
HookEventTypes ==
  {"checkout.session.completed", "customer.subscription.deleted",
   "invoice.payment_succeeded", "invoice.payment_failed", "charge.refunded"}
\* session.metadata: absent, or {tier, isFounder} of a standard or founder plan
HookMetadata == {"none", "pro", "pro-founder"}

\* this.stripe.webhooks.constructEvent(body, signature, this.webhookSecret)
constructEvent(signature, webhookSecretSet) ==
  [threw |-> ~(signature = "valid" /\ webhookSecretSet)]

\* handleCheckoutCompleted: destructures session.metadata and generates the
\* license key inside one try/catch
handleCheckoutCompleted(e, metadata, clock) ==
  IF metadata = "none"
    THEN HookResult(FALSE, FALSE, "License generation failed",
                    "handleCheckoutCompleted", FALSE)
  ELSE LET g == generateLicenseKey(e, "cus_1", "PRO", metadata = "pro-founder", clock)
       IN IF g.threw
            THEN HookResult(FALSE, FALSE, "License generation failed",
                            "handleCheckoutCompleted", FALSE)
            ELSE HookResult(FALSE, TRUE, "", "handleCheckoutCompleted", TRUE)

\* switch (event.type)
dispatch(e, type, metadata, clock) ==
  CASE type = "checkout.session.completed" -> handleCheckoutCompleted(e, metadata, clock)
    [] type = "customer.subscription.deleted" ->
         HookResult(FALSE, TRUE, "", "handleSubscriptionCanceled", FALSE)
    [] type = "invoice.payment_succeeded" ->
         HookResult(FALSE, TRUE, "", "handlePaymentSucceeded", FALSE)
    [] type = "invoice.payment_failed" ->
         HookResult(FALSE, TRUE, "", "handlePaymentFailed", FALSE)
    [] OTHER -> HookResult(FALSE, TRUE, "", "none", FALSE)

\* handleWebhook dispatching on the event type of the unverified body
handleWebhook_dispatchFirst(e, w, clock) ==
  IF ~w.STRIPE_SECRET_KEY THEN HookResult(TRUE, FALSE, "", "none", FALSE)
  ELSE dispatch(e, w.type, w.metadata, clock)

handleWebhook(e, w, clock) ==
  IF ~w.STRIPE_SECRET_KEY
    THEN \* initialize() returned false: throw new Error('Stripe not configured; ...')
         HookResult(TRUE, FALSE, "", "none", FALSE)
  ELSE IF constructEvent(w.signature, w.STRIPE_WEBHOOK_SECRET).threw
    THEN HookResult(FALSE, FALSE, "Invalid signature", "none", FALSE)
  ELSE dispatch(e, w.type, w.metadata, clock)

\* the try/catch of handleRequest's 'end' listener: the status written
respond(r) ==
  IF r.threw THEN 500 ELSE IF r.success THEN 200 ELSE 400

HookInit ==
  /\ pc = "idle"
  /\ options = IdleCall.options
  /\ req = [auth |-> "missing", url |-> MissingUrl]
  /\ parsed = NoUrl
  /\ dnsCalls = 0
  /\ lookup = Lookup("none", <<>>)
  /\ timer = "none"
  /\ settled = 0
  /\ result = NoReturn
  /\ nextCalls = 0
  /\ reqState = NoReqState
  /\ agentIndex = 0
  /\ connects = <<>>
  /\ reResolved = FALSE
  /\ responses = <<>>
  /\ env \in Environments
  /\ devMode = FALSE
  /\ licenseFile = AbsentFile
  /\ now = 0
  /\ issuedLic = NoIssued
  /\ lastCall = NoLicCall
  /\ calls = NoCalls
  /\ fetch = IdleFetch
  /\ webhook = NoWebhook
  /\ dbFile = AbsentDb
  /\ dbCall = NoDbCall

\* handleRequest(req, res): 405 for anything but POST, otherwise the body is
\* collected until 'end'
HookRequestArrives ==
  /\ webhook.pc = "idle"
  /\ \E method \in HookMethods, signature \in HookSignatures,
        type \in HookEventTypes, metadata \in HookMetadata,
        secretKey \in BOOLEAN, webhookSecret \in BOOLEAN :
       LET w == [NoWebhook EXCEPT !.method = method, !.signature = signature,
                   !.type = type, !.metadata = metadata,
                   !.STRIPE_SECRET_KEY = secretKey,
                   !.STRIPE_WEBHOOK_SECRET = webhookSecret]
       IN webhook' = IF method # "POST"
                       THEN [w EXCEPT !.pc = "done", !.responses = <<405>>]
                       ELSE [w EXCEPT !.pc = "body"]
  /\ UNCHANGED nonHookVars

\* req 'end': handleWebhook is awaited and one status is written
HookBodyEnds ==
  /\ webhook.pc = "body"
  /\ LET r == handleWebhook(env, webhook, now)
     IN webhook' = [webhook EXCEPT !.pc = "done", !.result = r,
                                   !.responses = Append(@, respond(r))]
  /\ UNCHANGED nonHookVars

\* the response is out; the server waits for the next request
HookFinish ==
  /\ webhook.pc = "done"
  /\ webhook' = NoWebhook
  /\ UNCHANGED nonHookVars

HookNext ==
  \/ HookRequestArrives
  \/ HookBodyEnds
  \/ HookFinish

SpecHook == HookInit /\ [][HookNext]_vars

(***************************************************************************)
(* The license database of license-validator.js.  In memory a database is  *)
(* its _metadata and its license members in key order (insertion order for *)
(* license keys); on disk and on the wire it is JSON text, in which a       *)
(* member whose value is undefined does not appear.                        *)
(***************************************************************************)
Null == [t |-> "null", s |-> "", n |-> 0]

License(key, entry) == [key |-> key, entry |-> entry]

\* JSON.stringify of the license members: each entry as JSON.stringify writes it
stringifyLicenses(licenses) ==
  [i \in 1..Len(licenses) |->
     [key |-> licenses[i].key, text |-> JSONstringify(licenses[i].entry).text]]

\* JSON.parse of that text
parseLicenses(text) ==
  [i \in 1..Len(text) |-> License(text[i].key, Object(text[i].text))]

\* crypto.createHash('sha256').update(json).digest('hex')
computeSha256(json) == [defined |-> TRUE, of |-> json]

\* const { _metadata, ...licenses } = JSON.parse(data)
loadLegitimateDatabase(file) ==
  IF file.kind = "db" THEN parseLicenses(file.licenses) ELSE <<>>

\* the entry addLegitimateKey builds (the dates left out)
LicenseEntry(customerId, tier, isFounder, purchaseEmail) ==
  Object(<< Field("customerId", customerId), Field("tier", Str(tier)),
            Field("isFounder", Bool(isFounder)), Field("email", purchaseEmail),
            Field("addedBy", Str("admin_tool")) >>)

HasKey(licenses, key) == \E i \in 1..Len(licenses) : licenses[i].key = key

\* database[licenseKey] = entry: in place for a key the object has, at the end
\* for a new one
SetKey(licenses, key, entry) ==
  IF HasKey(licenses, key)
    THEN [i \in 1..Len(licenses) |->
            IF licenses[i].key = key THEN License(key, entry) ELSE licenses[i]]
    ELSE Append(licenses, License(key, entry))

DbReturn(file, success, licenses) ==
  [file |-> file, success |-> success, licenses |-> licenses]

\* addLegitimateKey taking the checksum before the license is added
addLegitimateKey_staleChecksum(file, licenseKey, customerId, tier, isFounder, purchaseEmail) ==
  LET loaded == IF file.kind = "db" THEN parseLicenses(file.licenses) ELSE <<>>
      licenses == SetKey(loaded, licenseKey,
                         LicenseEntry(customerId, tier, isFounder, purchaseEmail))
  IN IF file.kind = "null" THEN DbReturn(file, FALSE, <<>>)
     ELSE DbReturn(DbFile(Metadata(TRUE, Len(licenses),
                                   computeSha256(stringifyLicenses(loaded))),
                          stringifyLicenses(licenses)),
                   TRUE, <<>>)

\* addLegitimateKey: load (an unparsable file counts as empty), add, update
\* _metadata.totalLicenses and _metadata.sha256, write
addLegitimateKey(file, licenseKey, customerId, tier, isFounder, purchaseEmail) ==
  LET loaded == IF file.kind = "db" THEN parseLicenses(file.licenses) ELSE <<>>
      licenses == SetKey(loaded, licenseKey,
                         LicenseEntry(customerId, tier, isFounder, purchaseEmail))
  IN IF file.kind = "null"
       THEN \* database is null: database._metadata throws, caught
            DbReturn(file, FALSE, <<>>)
       ELSE DbReturn(DbFile(Metadata(TRUE, Len(licenses),
                                     computeSha256(stringifyLicenses(licenses))),
                            stringifyLicenses(licenses)),
                     TRUE, <<>>)

\* fetchLegitimateDatabase caching whatever parses
fetchLegitimateDatabase_noIntegrity(file, response) ==
  IF response.kind # "object" \/ ~response.metadata.present
    THEN DbReturn(file, FALSE, loadLegitimateDatabase(file))
  ELSE DbReturn(DbFile(response.metadata, response.licenses), TRUE,
                parseLicenses(response.licenses))

fetchLegitimateDatabase(file, response) ==
  IF response.kind # "object"
    THEN \* fetch rejected, !response.ok, response.json() threw, or !database
         DbReturn(file, FALSE, loadLegitimateDatabase(file))
  ELSE IF ~response.metadata.present
    THEN DbReturn(file, FALSE, loadLegitimateDatabase(file))
  ELSE IF ~response.metadata.sha256.defined
    THEN DbReturn(file, FALSE, loadLegitimateDatabase(file))
  ELSE IF computeSha256(stringifyLicenses(parseLicenses(response.licenses)))
            # response.metadata.sha256
    THEN DbReturn(file, FALSE, loadLegitimateDatabase(file))
  ELSE DbReturn(DbFile(response.metadata, response.licenses), TRUE,
                parseLicenses(response.licenses))

MaxLicenses == 2   \* most license keys in a database

LicenseKeys == {"KEY-A", "KEY-B", "KEY-C"}

\* entries as they stand in JSON text
StoredEntries ==
  { JSONstringify(LicenseEntry(c, "PRO", f, Null)).text :
      c \in {Str("cus_1"), Undef}, f \in BOOLEAN }

\* the license members of the databases a server may send or a disk may hold
StoredLicenses ==
  {<<>>}
  \cup { << [key |-> k, text |-> e] >> : k \in {"KEY-A"}, e \in StoredEntries }
  \cup { << [key |-> "KEY-A", text |-> e], [key |-> "KEY-B", text |-> e] >> :
           e \in StoredEntries }

\* a checksum that belongs to other license members
OtherSha == computeSha256(<< [key |-> "KEY-Z", text |-> <<>>] >>)

StoredMetadata(licenses) ==
  { NoMetadata, Metadata(FALSE, 0, NoSha),
    Metadata(TRUE, Len(licenses), computeSha256(licenses)),
    Metadata(TRUE, Len(licenses), OtherSha) }

InitialDbFiles ==
  {AbsentDb, CorruptDb, NullDb}
  \cup UNION { { DbFile(m, l) : m \in StoredMetadata(l) \ {NoMetadata} } :
                 l \in StoredLicenses }

FetchResponses ==
  { FetchFailed(k) : k \in {"error", "http", "malformed", "null"} }
  \cup UNION { { FetchedObject(m, l) : m \in StoredMetadata(l) } :
                 l \in StoredLicenses }

DbInit ==
  /\ LicIdle
  /\ pc = "idle"
  /\ options = IdleCall.options
  /\ req = [auth |-> "missing", url |-> MissingUrl]
  /\ parsed = NoUrl
  /\ dnsCalls = 0
  /\ lookup = Lookup("none", <<>>)
  /\ timer = "none"
  /\ settled = 0
  /\ result = NoReturn
  /\ nextCalls = 0
  /\ reqState = NoReqState
  /\ agentIndex = 0
  /\ connects = <<>>
  /\ reResolved = FALSE
  /\ responses = <<>>
  /\ calls = NoCalls
  /\ fetch = IdleFetch
  /\ webhook = NoWebhook
  /\ dbFile \in InitialDbFiles
  /\ dbCall = NoDbCall

DbCall(op, key, response, r) ==
  [op |-> op, key |-> key, response |-> response, before |-> dbFile,
   success |-> r.success, licenses |-> r.licenses]

FetchLegitimateDatabase ==
  /\ \E response \in FetchResponses :
       LET r == fetchLegitimateDatabase(dbFile, response)
       IN /\ dbFile' = r.file
          /\ dbCall' = DbCall("fetchLegitimateDatabase", "", response, r)
  /\ UNCHANGED nonDbVars

AddLegitimateKey ==
  /\ \E licenseKey \in LicenseKeys, customerId \in {Str("cus_1"), Undef},
        isFounder \in BOOLEAN :
       /\ HasKey(dbFile.licenses, licenseKey) \/ Len(dbFile.licenses) < MaxLicenses
       /\ LET r == addLegitimateKey(dbFile, licenseKey, customerId, "PRO",
                                    isFounder, Null)
          IN /\ dbFile' = r.file
             /\ dbCall' = DbCall("addLegitimateKey", licenseKey, NoResponse, r)
  /\ UNCHANGED nonDbVars

DbNext ==
  \/ FetchLegitimateDatabase
  \/ AddLegitimateKey

SpecDb == DbInit /\ [][DbNext]_vars

(***************************************************************************)
(* licensing.js writing and removing license.json.  saveLicense and        *)
(* removeLicense name the directory and the file by the identifiers        *)
(* LICENSE_DIR and LICENSE_FILE; the module declares neither: it defines   *)
(* them as accessor properties of `exports` only, so evaluating the        *)
(* identifier throws a ReferenceError, which the try/catch of the function *)
(* turns into {success: false, error}.                                     *)
(***************************************************************************)
\* the identifiers licensing.js declares at module level and then uses in
\* saveLicense and removeLicense
ModuleBindings == {"fs", "path", "os", "crypto", "getLicenseDir", "getLicenseFile"}

StoreReturn(success, error, file) ==
  [success |-> success, error |-> error, file |-> file]

\* saveLicense(tier, key, email, expires = null): the record has no payload
\* and no signature; getLicenseInfo reads its key through
\* licenseData.licenseKey || licenseData.key
Licensing_saveLicense(file, tier, key, email, expires) ==
  IF "LICENSE_DIR" \notin ModuleBindings
    THEN StoreReturn(FALSE, "LICENSE_DIR is not defined", file)
  ELSE IF "LICENSE_FILE" \notin ModuleBindings
    THEN StoreReturn(FALSE, "LICENSE_FILE is not defined", file)
  ELSE StoreReturn(TRUE, "",
                   FileRecord(tier, key, email, expires, UndefinedPayload, UndefinedSig))

removeLicense(file) ==
  IF "LICENSE_FILE" \notin ModuleBindings
    THEN StoreReturn(FALSE, "LICENSE_FILE is not defined", file)
  ELSE StoreReturn(TRUE, "", AbsentFile)

StoreInit ==
  /\ pc = "idle"
  /\ options = IdleCall.options
  /\ req = [auth |-> "missing", url |-> MissingUrl]
  /\ parsed = NoUrl
  /\ dnsCalls = 0
  /\ lookup = Lookup("none", <<>>)
  /\ timer = "none"
  /\ settled = 0
  /\ result = NoReturn
  /\ nextCalls = 0
  /\ reqState = NoReqState
  /\ agentIndex = 0
  /\ connects = <<>>
  /\ reResolved = FALSE
  /\ responses = <<>>
  /\ env \in Environments
  /\ devMode = FALSE
  /\ licenseFile \in
       { AbsentFile,
         FileRecord("PRO", LegacyKey("PRO"), "old@example.com", 0,
                    UndefinedPayload, UndefinedSig) }
  /\ now = 0
  /\ issuedLic = NoIssued
  /\ lastCall = NoLicCall
  /\ calls = NoCalls
  /\ fetch = IdleFetch
  /\ webhook = NoWebhook
  /\ dbFile = AbsentDb
  /\ dbCall = NoDbCall

\* saveLicense(tier, key, email) with a well-formed key and no expiry
SaveLicense ==
  /\ \E tier \in PaidTiers :
       \E key \in {StripeKey("cus_1", tier, FALSE), LegacyKey(tier)} :
         LET r == Licensing_saveLicense(licenseFile, tier, key, "user@example.com", 0)
         IN /\ licenseFile' = r.file
            /\ lastCall' = InfoCall("saveLicense", tier, r)
  /\ UNCHANGED <<nonLicVars, env, devMode, now, issuedLic>>

RemoveLicense ==
  /\ LET r == removeLicense(licenseFile)
     IN /\ licenseFile' = r.file
        /\ lastCall' = InfoCall("removeLicense", "", r)
  /\ UNCHANGED <<nonLicVars, env, devMode, now, issuedLic>>

StoreNext ==
  \/ SaveLicense
  \/ RemoveLicense
  \/ GetLicenseInfo
  \/ Tick

SpecStore == StoreInit /\ [][StoreNext]_vars






(***************************************************************************)
(* Properties of the URL validator and of the /fetch route.                *)
(***************************************************************************)
Opts == defaultOptions(options)

\* the answer validateDNS received has an address in a blocked range
AnswerHasBlocked ==
  /\ lookup.state = "answered" /\ timer = "cleared"
  /\ \E i \in 1..Len(lookup.addresses) :
       isBlockedIP(lookup.addresses[i].address, Opts.blockMetadataEndpoints)

\* C1: with blockPrivateIPs enabled, validateURL rejects with 'URL resolves to
\* a blocked IP address' whenever the DNS answer it received holds at least one
\* address in a blocked range, at any position of a list of any length.
C1_AnyBlockedAddressRejects ==
  (result.returned /\ Opts.blockPrivateIPs /\ AnswerHasBlocked)
    => /\ ~result.value.valid
       /\ result.value.error = Err("URL resolves to a blocked IP address", 0)

\* a public address first, a blocked one second: rejected
C1_Witness ==
  /\ result.returned /\ Opts.blockPrivateIPs
  /\ lookup.state = "answered" /\ timer = "cleared"
  /\ Len(lookup.addresses) = 2
  /\ ~isBlockedIP(lookup.addresses[1].address, Opts.blockMetadataEndpoints)
  /\ isBlockedIP(lookup.addresses[2].address, Opts.blockMetadataEndpoints)
  /\ ~result.value.valid

\* C2: for a request that passed ssrfProtection with blockPrivateIPs enabled,
\* the outbound request never resolves the hostname again: the k-th connection
\* (k from 0) goes to resolvedAddresses[k mod n] of that request's validation.
C2_OutboundUsesPinnedAddresses ==
  (nextCalls > 0 /\ reqState.hasUrl /\ Opts.blockPrivateIPs)
    => /\ ~reResolved
       /\ \A k \in 1..Len(connects) :
            /\ Len(result.value.resolvedAddresses) > 0
            /\ connects[k] = result.value.resolvedAddresses[
                 ((k - 1) % Len(result.value.resolvedAddresses)) + 1]

IsLocalhost(h) == h.kind = "name" /\ h.labels = <<"localhost">>
IsPrivateLiteral(h) ==
  /\ h.kind = "ip4"
  /\ \/ h.ip[1] = 127
     \/ h.ip[1] = 10
     \/ h.ip[1] = 192 /\ h.ip[2] = 168
     \/ h.ip[1] = 172 /\ h.ip[2] >= 16 /\ h.ip[2] <= 31
IsMetadataLiteral(h) == h.kind = "ip4" /\ h.ip = <<169, 254, 169, 254>>

\* C3: validateURL returns valid=false for every URL whose host is localhost,
\* an IP literal in 127/8, 10/8, 192.168/16 or 172.16/12 (when blockPrivateIPs
\* is true) or the metadata IP 169.254.169.254 (when blockMetadataEndpoints is
\* true), whatever the other options are.
C3_InternalHostsRejected ==
  (/\ result.returned
   /\ req.url.kind = "url"
   /\ \/ IsLocalhost(req.url.host)
      \/ IsPrivateLiteral(req.url.host) /\ Opts.blockPrivateIPs
      \/ IsMetadataLiteral(req.url.host) /\ Opts.blockMetadataEndpoints)
    => ~result.value.valid

\* every check of validateURL that precedes the DNS step passes for the url
EarlyChecksPass ==
  LET url == ParseURL(req.url)
  IN /\ url.ok
     /\ url.protocol \in ALLOWED_PROTOCOLS
     /\ ~isBlockedHostname(url.hostname, Opts.blockMetadataEndpoints)
     /\ ~validatePort(url, Opts.allowedPortsSet, Opts.allowedPorts).defined
     /\ ~validateDomain(url, Opts.allowedDomains).defined

\* C7: validateURL starts a DNS lookup only after the URL parsed and passed
\* the protocol, hostname, port and domain checks and blockPrivateIPs is true;
\* a URL rejected by one of these checks is rejected with no lookup made.
C7_NoLookupBeforeChecks ==
  /\ dnsCalls <= 1
  /\ dnsCalls > 0 => (EarlyChecksPass /\ Opts.blockPrivateIPs)
  /\ (result.returned /\ ~EarlyChecksPass) => (dnsCalls = 0 /\ ~result.value.valid)

\* a hostname outside allowedDomains, private-IP blocking on: rejected, no lookup
C7_Witness ==
  /\ result.returned
  /\ Opts.blockPrivateIPs
  /\ result.value.error = Err("Domain not in allowed list", 0)
  /\ dnsCalls = 0
  /\ lookup.state = "none"

\* C8: a validateURL call that started a lookup returns even when the lookup
\* never answers: once the timer has fired with the lookup unsettled the call
\* has completed with valid=false and a timeout or failed-resolution reason,
\* and every call waiting for DNS eventually returns.
C8_LookupIsBounded ==
  /\ [](timer = "fired"
         => /\ result.returned
            /\ ~result.value.valid
            /\ result.value.error.text \in
                 {"DNS lookup timeout", "Failed to resolve hostname"})
  /\ ((pc = "dns") ~> result.returned)

\* the timer fired, the lookup is still pending, the call has returned
C8_Witness ==
  /\ timer = "fired" /\ lookup.state = "pending"
  /\ result.returned /\ ~result.value.valid

\* validateURL was called for this request and is not suspended
ValidateCalled ==
  /\ req.auth = "valid"
  /\ req.url.kind \in {"malformed", "url"}
  /\ pc \in {"handler", "fetching", "done"}

\* C9: validateURL never throws: every call completes with a result object; a
\* result with valid=false carries a non-empty error and no url, a result with
\* valid=true carries the parsed url and no error.
C9_AlwaysAResult ==
  /\ ValidateCalled => result.returned
  /\ result.returned =>
       IF result.value.valid
         THEN /\ result.value.hasUrl /\ result.value.url = ParseURL(req.url)
              /\ result.value.url.ok
              /\ ~result.value.error.defined
         ELSE /\ result.value.error.defined /\ result.value.error.text # ""
              /\ ~result.value.hasUrl

\* a string `new URL` rejects: a result, not an exception
C9_Witness ==
  /\ ValidateCalled /\ req.url.kind = "malformed"
  /\ result.returned
  /\ result.value.error = Err("Invalid URL format", 0)


(***************************************************************************)
(* Properties of license signing and verification.                         *)
(***************************************************************************)
VerifyOps ==
  {"StripeIntegration.verifyLicenseSignature", "licensing.verifyLicenseSignature",
   "LicenseValidator.verifySignature"}
SignOps == {"StripeIntegration.generateLicenseKey", "LicenseValidator.saveLicense"}

ReturnedTrue == ~lastCall.threw /\ lastCall.value
ReturnedFalse == ~lastCall.threw /\ ~lastCall.value

ProductionWithoutSecret ==
  env.NODE_ENV = "production" /\ env.LICENSE_SIGNING_SECRET = ""

\* the module of the last call refuses the secret it is configured with
RefusesSecret ==
  /\ lastCall.op # "LicenseValidator.verifySignature"
  /\ env.NODE_ENV = "production"
  /\ IncludesDevSecret(SecretOrFallback(env))

\* C4: for each of the three verifiers and the secret it works with,
\* verify(payload, signature) is true exactly when signature is the HMAC-SHA256
\* of the serialized payload under that secret; the pair generateLicenseKey
\* returned verifies, and that payload with one field changed and the old
\* signature makes verify return false.
C4_VerifyIffHmac ==
  (lastCall.op \in VerifyOps /\ ~RefusesSecret) =>
    LET json == JSONstringify(lastCall.payload)
    IN /\ ReturnedTrue <=>
            /\ ~json.threw /\ json.defined
            /\ lastCall.signature = Digest(SecretOrFallback(env), json.text)
       /\ (~issuedLic.threw /\ lastCall.signature = issuedLic.signature) =>
            /\ lastCall.payload = issuedLic.payload => ReturnedTrue
            /\ lastCall.payload \in SingleFieldChanges(issuedLic.payload) => ReturnedFalse

\* an issued PRO payload changed to ENTERPRISE, old signature kept: false
C4_Witness ==
  /\ lastCall.op \in VerifyOps /\ ~RefusesSecret
  /\ ~issuedLic.threw
  /\ issuedLic.payload.fields[2].v = Str("PRO")
  /\ lastCall.payload = [issuedLic.payload EXCEPT !.fields[2].v = Str("ENTERPRISE")]
  /\ lastCall.signature = issuedLic.signature
  /\ ReturnedFalse

\* C5: in production with LICENSE_SIGNING_SECRET unset no operation produces a
\* signature computed with the development fallback secret, stores one, or
\* accepts one.
C5_ProductionRefusesFallback ==
  ProductionWithoutSecret =>
    /\ lastCall.op \in SignOps => lastCall.out.kind = "undefined"
    /\ lastCall.op \in VerifyOps => ~ReturnedTrue
    /\ licenseFile.signature.key # DEV_SECRET

\* a verifier meets an internal error or a signature that cannot match
VerifierCannotMatch ==
  \/ env.NODE_ENV = "production" /\ IncludesDevSecret(SecretOrFallback(env))
  \/ JSONstringify(lastCall.payload).threw
  \/ ~JSONstringify(lastCall.payload).defined
  \/ lastCall.signature.kind = "undefined"
  \/ lastCall.signature.len # 64

\* C6: every verifier completes with a value, never an exception, and the
\* value is false when the secret is missing, the payload cannot be
\* serialized, the signature is missing or its length is not the expected one.
C6_VerifiersNeverThrow ==
  lastCall.op \in VerifyOps =>
    /\ ~lastCall.threw
    /\ VerifierCannotMatch => ReturnedFalse


(***************************************************************************)
(* Properties of reading the license.                                      *)
(***************************************************************************)
\* the stored record has a payload and a signature, and the signature does not
\* verify against the payload
SignatureDoesNotVerify ==
  /\ licenseFile.kind = "record"
  /\ licenseFile.payload.kind # "undefined"
  /\ licenseFile.signature.kind # "undefined"
  /\ ~verifyLicenseSignature(env, licenseFile.payload, licenseFile.signature).value

\* the record reaches the signature step: no developer override, the three
\* required fields present, not expired
ReachesSignatureStep ==
  /\ ~devMode
  /\ licenseFile.tier # "" /\ licenseFile.licenseKey.fmt # "missing"
  /\ licenseFile.email # ""
  /\ ~(licenseFile.expires # 0 /\ licenseFile.expires < now)

\* C10: a stored record whose signature does not verify against its payload
\* is treated like an absent license: getLicenseInfo returns FREE with the
\* signature-failure error, and hasFeature, getCoreFeatureLevel and
\* getApiLimit return what they return with no license file, whatever tier
\* the record claims (stated for records that reach the signature step).
C10_TamperedLikeAbsent ==
  (SignatureDoesNotVerify /\ ReachesSignatureStep /\ lastCall.op # "none"
     /\ lastCall.at = now) =>
    /\ lastCall.op = "getLicenseInfo" =>
         /\ lastCall.ret.tier = "FREE"
         /\ lastCall.ret.error = SignatureFailure
         /\ lastCall.ret.error # getLicenseInfo(env, devMode, AbsentFile, now).error
    /\ lastCall.op = "hasFeature" =>
         lastCall.ret = hasFeature(env, devMode, AbsentFile, now, lastCall.arg)
    /\ lastCall.op = "getCoreFeatureLevel" =>
         lastCall.ret = getCoreFeatureLevel(env, devMode, AbsentFile, now)
    /\ lastCall.op = "getApiLimit" =>
         lastCall.ret = getApiLimit(env, devMode, AbsentFile, now)


\* the stored record is well formed and its signature verifies against its payload
ValidSignedRecord ==
  /\ licenseFile.kind = "record"
  /\ licenseFile.tier # "" /\ licenseFile.licenseKey.fmt # "missing"
  /\ licenseFile.email # ""
  /\ licenseFile.payload.kind # "undefined"
  /\ verifyLicenseSignature(env, licenseFile.payload, licenseFile.signature).value

ReportedExpired ==
  lastCall.op = "getLicenseInfo" /\ lastCall.ret.error = "License expired"

\* C11: outside developer mode, for a stored record with a valid signature and
\* expiry time T, every getLicenseInfo call made before T reports the record's
\* tier and every call made after T reports FREE with 'License expired'; once a
\* call has reported the record expired no later call reports a tier but FREE.
C11_ExpiryFollowsClock ==
  /\ []((lastCall.op = "getLicenseInfo" /\ ~devMode /\ ValidSignedRecord
           /\ licenseFile.expires # 0) =>
         /\ lastCall.at < licenseFile.expires =>
              (lastCall.ret.tier = licenseFile.tier /\ lastCall.ret.error = "")
         /\ lastCall.at > licenseFile.expires =>
              (lastCall.ret.tier = "FREE" /\ lastCall.ret.error = "License expired"))
  /\ [](ReportedExpired =>
          [](lastCall.op = "getLicenseInfo" => lastCall.ret.tier = "FREE"))

\* a validly signed PRO record read after its expiry time
C11_Witness ==
  /\ lastCall.op = "getLicenseInfo" /\ ~devMode /\ ValidSignedRecord
  /\ licenseFile.tier = "PRO"
  /\ licenseFile.expires # 0 /\ lastCall.at > licenseFile.expires
  /\ ReportedExpired


(***************************************************************************)
(* Properties of the /fetch route.                                         *)
(***************************************************************************)
\* C12: an outbound request is issued only for a URL validateURL accepted in
\* the same request; a failed validation is answered 400 {error: 'Invalid URL',
\* details: reason} with next never called; a successful one calls next exactly
\* once with validatedUrl set; without a url parameter the handler answers 400
\* and nothing is requested.
C12_OutboundOnlyAfterAccept ==
  /\ nextCalls <= 1
  /\ Len(connects) > 0 =>
       /\ result.returned /\ result.value.valid
       /\ reqState.hasUrl /\ reqState.validatedUrl = ParseURL(req.url)
  /\ (result.returned /\ ~result.value.valid) =>
       /\ nextCalls = 0 /\ connects = <<>>
       /\ pc = "done"
       /\ responses = << Response(400, "Invalid URL", result.value.error) >>
  /\ (result.returned /\ result.value.valid) =>
       /\ nextCalls = 1
       /\ reqState.hasUrl /\ reqState.validatedUrl = result.value.url
  /\ (req.auth = "valid" /\ req.url.kind \in {"missing", "array"}) =>
       /\ connects = <<>> /\ ~result.returned
       /\ pc = "done" => responses = << Response(400, "URL is required", NoErr) >>

\* a URL whose DNS answer holds a blocked address: 400 with the reason, no next
C12_Witness ==
  /\ pc = "done" /\ result.returned /\ ~result.value.valid
  /\ lookup.state = "answered"
  /\ responses = << Response(400, "Invalid URL",
                             Err("URL resolves to a blocked IP address", 0)) >>
  /\ nextCalls = 0 /\ connects = <<>>

C14_ResolvedAddressesAreTheAnswer ==
  (result.returned /\ result.value.valid) =>
    IF Opts.blockPrivateIPs
      THEN /\ dnsCalls = 1 /\ lookup.state = "answered" /\ timer = "cleared"
           /\ result.value.hasAddresses
           /\ Len(result.value.resolvedAddresses) = Len(lookup.addresses)
           /\ \A i \in 1..Len(lookup.addresses) :
                result.value.resolvedAddresses[i] = lookup.addresses[i].address
      ELSE /\ dnsCalls = 0 /\ lookup.state = "none"
           /\ ~result.value.hasAddresses
           /\ result.value.resolvedAddresses = <<>>

\* an answer of two different public addresses, returned in the answer's order
C14_Witness ==
  /\ result.returned /\ result.value.valid /\ Opts.blockPrivateIPs
  /\ Len(lookup.addresses) = 2
  /\ lookup.addresses[1] # lookup.addresses[2]
  /\ result.value.resolvedAddresses =
       << lookup.addresses[1].address, lookup.addresses[2].address >>


(***************************************************************************)
(* Properties of the checks of validateURL.                                *)
(***************************************************************************)
\* the port the request would go to: the explicit one or the scheme's
EffectivePort ==
  IF req.url.port # NoPort THEN req.url.port
  ELSE IF req.url.protocol = "https:" THEN 443 ELSE 80

HttpUrl == req.url.kind = "url" /\ req.url.protocol \in {"http:", "https:"}

AllDefaults ==
  /\ ~options.allowedDomains.set /\ ~options.allowedPorts.set
  /\ ~options.blockPrivateIPs.set /\ ~options.blockMetadataEndpoints.set

\* C15: with default options validateURL returns valid=true for every http or
\* https URL whose hostname is not on the hostname blocklist, whose effective
\* port is not blocked and whose DNS answer holds only addresses outside all
\* blocked ranges.
\* (the lookup neither failed nor ran into the timer, and nothing it answered
\* with is blocked)
C15_PublicUrlsAccepted ==
  (/\ result.returned /\ AllDefaults /\ HttpUrl
   /\ ~isBlockedHostname(req.url.host, TRUE)
   /\ EffectivePort \notin BLOCKED_PORTS
   /\ lookup.state # "failed" /\ timer # "fired"
   /\ \A i \in 1..Len(lookup.addresses) : ~isBlockedIP(lookup.addresses[i].address, TRUE))
    => result.value.valid

\* https://example.com/ answered with two public addresses
C15_Witness ==
  /\ result.returned /\ AllDefaults
  /\ req.url = RawUrl("https:", Name(<<"example", "com">>), NoPort)
  /\ lookup.state = "answered" /\ timer = "cleared"
  /\ Len(lookup.addresses) = 2
  /\ \A i \in 1..2 : ~isBlockedIP(lookup.addresses[i].address, TRUE)
  /\ result.value.valid

\* the url reaches the port check of validateURL
ReachesPortCheck ==
  /\ result.returned /\ HttpUrl
  /\ ~isBlockedHostname(req.url.host, Opts.blockMetadataEndpoints)

\* C18: the effective port is the explicit port, or 80 for http and 443 for
\* https; a port of the blocked list is rejected with 'Port N is blocked' even
\* when allowedPorts holds it; with allowedPorts supplied a port that is not
\* blocked and not in allowedPorts is rejected with 'Port N is not allowed'.
C18_PortCheck ==
  ReachesPortCheck =>
    /\ EffectivePort \in {22, 25, 3306, 5432, 6379, 27017, 9200, 9300} =>
         result.value = Invalid(Err("Port N is blocked", EffectivePort))
    /\ (/\ EffectivePort \notin {22, 25, 3306, 5432, 6379, 27017, 9200, 9300}
        /\ options.allowedPorts.set
        /\ ~InSeq(EffectivePort, options.allowedPorts.v)) =>
         result.value = Invalid(Err("Port N is not allowed", EffectivePort))

\* port 22 with allowedPorts [22, 8080]: blocked all the same
C18_Witness ==
  /\ ReachesPortCheck
  /\ req.url.port = 22
  /\ options.allowedPorts = Set(<<22, 8080>>)
  /\ result.value = Invalid(Err("Port N is blocked", 22))

HasSuffix(labels, d) ==
  /\ Len(labels) >= Len(d)
  /\ SubSeq(labels, Len(labels) - Len(d) + 1, Len(labels)) = d

\* the host, whatever its case, is one of the names or a subdomain of one
UnderOneOf(host, names) ==
  host.kind = "name" /\ \E d \in names : HasSuffix(host.labels, d)

\* C19: for an http(s) URL, a hostname that case-insensitively equals or is a
\* subdomain of localhost, localhost.localdomain, kubernetes.default or
\* kubernetes.default.svc is rejected with 'Hostname is blocked' under every
\* option value; one that equals or is a subdomain of metadata.google.internal
\* or metadata is rejected so exactly when blockMetadataEndpoints is true.
C19_HostnameBlocklist ==
  (result.returned /\ HttpUrl) =>
    LET fixed == UnderOneOf(req.url.host,
                   { <<"localhost">>, <<"localhost", "localdomain">>,
                     <<"kubernetes", "default">>, <<"kubernetes", "default", "svc">> })
        metadata == UnderOneOf(req.url.host,
                      { <<"metadata", "google", "internal">>, <<"metadata">> })
        blockedHere == result.value = Invalid(Err("Hostname is blocked", 0))
    IN /\ fixed => blockedHere
       /\ (metadata /\ ~fixed) => (blockedHere <=> Opts.blockMetadataEndpoints)

\* API.KUBERNETES.DEFAULT.SVC with every blocking option switched off
C19_Witness ==
  /\ result.returned /\ HttpUrl
  /\ req.url.host = UpperName(<<"api", "kubernetes", "default", "svc">>)
  /\ ~Opts.blockMetadataEndpoints /\ ~Opts.blockPrivateIPs
  /\ result.value = Invalid(Err("Hostname is blocked", 0))

\* C20: validateURL reports a DNS timeout with a reason of its own: 'DNS
\* lookup timeout' when the timer fires before the lookup settles, 'Failed to
\* resolve hostname' when the resolver answers with an error.
C20_TimeoutIsDistinct ==
  /\ (result.returned /\ timer = "fired") =>
       result.value = Invalid(Err("DNS lookup timeout", 0))
  /\ (result.returned /\ lookup.state = "failed" /\ timer = "cleared") =>
       result.value = Invalid(Err("Failed to resolve hostname", 0))


(***************************************************************************)
(* Properties of generateLicenseKey.                                       *)
(***************************************************************************)
\* the payload with its issued member set to another time
WithIssued(payload, clock) ==
  Object([i \in 1..Len(payload.fields) |->
            IF payload.fields[i].k = "issued"
              THEN Field("issued", Num(clock)) ELSE payload.fields[i]])

\* a second call for the customer, tier and founder flag of the license last
\* issued, in environment e at time clock
IssuedAgain(e, clock) ==
  generateLicenseKey(e, issuedLic.payload.fields[1].v.s,
                     issuedLic.payload.fields[2].v.s,
                     issuedLic.payload.fields[3].v.s = "true", clock)

\* C16: a second generateLicenseKey call with the same customerId, tier and
\* isFounder returns, at any clock and under any signing secret, the same
\* licenseKey and a payload equal except for issued; when the two payloads are
\* one and the same, two different signing secrets give different signatures.
C16_GenerateIsDeterministic ==
  ~issuedLic.threw =>
    \A e \in Environments, clock \in 0..MaxClock :
      LET again == IssuedAgain(e, clock)
      IN ~again.threw =>
           /\ again.licenseKey = issuedLic.licenseKey
           /\ again.payload = WithIssued(issuedLic.payload, clock)
           /\ WithIssued(again.payload, 0) = WithIssued(issuedLic.payload, 0)
           /\ (/\ again.payload = issuedLic.payload
               /\ getSigningSecret(e).secret # getSigningSecret(env).secret) =>
                again.signature # issuedLic.signature

\* a founder license issued under a configured secret; a later call under the
\* fallback secret returns as well
C16_Witness ==
  /\ lastCall.op = "StripeIntegration.generateLicenseKey" /\ ~lastCall.threw
  /\ ~issuedLic.threw
  /\ env.LICENSE_SIGNING_SECRET = "prod-secret-1"
  /\ issuedLic.payload.fields[3].v = Bool(TRUE)
  /\ \E e \in Environments :
       /\ ~IssuedAgain(e, MaxClock).threw
       /\ getSigningSecret(e).secret = DEV_SECRET
       /\ IssuedAgain(e, MaxClock).payload # issuedLic.payload
       /\ IssuedAgain(e, 0).signature # issuedLic.signature


(***************************************************************************)
(* Properties of requests in flight at once.                               *)
(***************************************************************************)
\* how the lookup of call i settled for validateDNS
OwnSettle(i) ==
  IF calls[i].timer = "fired" THEN Rejected("timeout")
  ELSE IF calls[i].lookup.state = "failed" THEN Rejected("error")
  ELSE Value(calls[i].lookup.addresses)

\* what validateURL returns for the input and the DNS outcome of call i
Alone(i) ==
  LET v == validateURL(calls[i].urlString, calls[i].options)
  IN IF v.step = "return" THEN v.result
     ELSE validateURLResume(v.url,
            validateDNS(OwnSettle(i),
                        defaultOptions(calls[i].options).blockMetadataEndpoints))

\* C17: in every interleaving of the validateURL calls and of the connections
\* that follow them, each call that returned holds the result validateURL gives
\* for its own input and its own DNS outcome, and the connections of a request
\* walk its own resolved addresses round-robin from the first one, whatever
\* the other requests have done.
C17_CallsDoNotInterfere ==
  \A i \in CallIds :
    calls[i].result.returned =>
      /\ calls[i].result.value = Alone(i)
      /\ calls[i].index = Len(calls[i].connects)
      /\ \A k \in 1..Len(calls[i].connects) :
           calls[i].connects[k] =
             calls[i].result.value.resolvedAddresses[
               ((k - 1) % Len(calls[i].result.value.resolvedAddresses)) + 1]

\* request 1 connected once and request 2, accepted for another answer,
\* connected twice, starting at its own first address
C17_Witness ==
  /\ calls[1].result.returned /\ calls[2].result.returned
  /\ calls[1].connects = << V4(8, 8, 8, 8) >>
  /\ calls[2].connects = << V4(93, 184, 216, 34), V4(8, 8, 8, 8) >>


(***************************************************************************)
(* Properties of what a stored license record can claim.                   *)
(***************************************************************************)
\* getLicenseInfo was called last, outside developer mode, on a stored record
InfoOfRecord ==
  /\ lastCall.op = "getLicenseInfo" /\ ~devMode
  /\ licenseFile.kind = "record"

CarriesPayloadAndSignature ==
  /\ licenseFile.payload.kind = "object"
  /\ licenseFile.signature.kind # "undefined" /\ licenseFile.signature.len # 0

\* the tier member of the signed payload
PayloadTier(payload) == payload.fields[2].v.s

\* C21: for a stored record with payload and signature, the tier getLicenseInfo
\* reports is the tier of the signed payload, and a record reported with a paid
\* tier is not one that a change of its top-level expires alone would make
\* expired at the time of the call.
C21_ReportCoveredBySignature ==
  (InfoOfRecord /\ CarriesPayloadAndSignature /\ lastCall.ret.tier # "FREE") =>
    /\ lastCall.ret.tier = PayloadTier(licenseFile.payload)
    /\ \A expires \in {0, 1} :
         getLicenseInfo(env, devMode, [licenseFile EXCEPT !.expires = expires],
                        lastCall.at).error # "License expired"

\* C22: outside developer mode getLicenseInfo reports a tier other than FREE
\* only for a stored record whose payload and signature are present and whose
\* signature verifies under the secret.
C22_PaidTierNeedsSignature ==
  (lastCall.op = "getLicenseInfo" /\ ~devMode /\ lastCall.ret.tier # "FREE") =>
    /\ licenseFile.kind = "record"
    /\ CarriesPayloadAndSignature
    /\ verifyLicenseSignature(env, licenseFile.payload, licenseFile.signature).value


(***************************************************************************)
(* Properties of the outbound request of /fetch.                           *)
(***************************************************************************)
\* C23: whenever ssrfProtection lets a request through with blockPrivateIPs
\* enabled, the validation returned a non-empty resolvedAddresses list and
\* validatedUrlAgent is defined.
C23_AcceptedMeansPinned ==
  (nextCalls > 0 /\ reqState.hasUrl /\ Opts.blockPrivateIPs) =>
    /\ result.value.hasAddresses
    /\ Len(result.value.resolvedAddresses) > 0
    /\ reqState.validatedUrlAgent.defined


\* C24: every /fetch request whose handler called requestText eventually gets
\* a response, whatever the upstream does.
C24_EveryRequestAnswered ==
  (fetch.pc = "awaiting") ~> (Len(fetch.sent) > 0)

\* C25: requestText never resolves with more than MAX_RESPONSE_BYTES of body;
\* once the chunks received exceed the limit the request is destroyed and the
\* promise is and stays rejected with 'Response too large'; /fetch then
\* answers 502 with that message, and no request gets a second response.
C25_ResponseSizeIsCapped ==
  /\ fetch.promise.state = "resolved" =>
       (fetch.promise.body <= 1048576 /\ fetch.size <= 1048576)
  /\ fetch.size > 1048576 =>
       /\ fetch.destroyed
       /\ fetch.promise.state = "rejected"
       /\ fetch.promise.reason = "Response too large"
       /\ fetch.pc = "responded" =>
            fetch.sent = << Response(502, "Response too large", NoErr) >>
  /\ Len(fetch.sent) <= 1

\* a full chunk and one byte more, then an 'end' after the request was
\* destroyed, and the 502 sent
C25_Witness ==
  /\ fetch.chunks = << 1048576 >> /\ fetch.size = 1048577
  /\ fetch.ended /\ fetch.received = 2
  /\ fetch.promise.reason = "Response too large"
  /\ fetch.sent = << Response(502, "Response too large", NoErr) >>


(***************************************************************************)
(* Properties of the race in withTimeout.                                  *)
(***************************************************************************)
\* C26: the promise of withTimeout settles at most once; when the lookup
\* settled first the timer is cleared and does not fire afterwards; when the
\* timer fired first the validation has returned a rejection without
\* resolvedAddresses and without a pinned agent, and a lookup that settles
\* later changes neither the result nor what is attached to the request.
C26_OneWinner ==
  /\ [](settled <= 1)
  /\ [](timer = "cleared" => (settled = 1 /\ lookup.state \in {"answered", "failed"}))
  /\ [][timer = "cleared" => timer' # "fired"]_vars
  /\ [](timer = "fired" =>
          /\ settled = 1
          /\ result.returned /\ ~result.value.valid
          /\ ~result.value.hasAddresses /\ result.value.resolvedAddresses = <<>>
          /\ ~reqState.hasUrl /\ ~reqState.validatedUrlAgent.defined
          /\ connects = <<>>)
  /\ [][(timer = "fired" /\ timer' = "fired") =>
          (result' = result /\ reqState' = reqState /\ settled' = settled)]_vars

\* the timer won, and the lookup answered afterwards with public addresses only
C26_Witness ==
  /\ timer = "fired" /\ lookup.state = "answered"
  /\ Len(lookup.addresses) = 2
  /\ \A i \in 1..2 : ~isBlockedIP(lookup.addresses[i].address, TRUE)
  /\ result.returned /\ ~result.value.valid
  /\ ~reqState.validatedUrlAgent.defined


(***************************************************************************)
(* Properties of the Stripe webhook.                                       *)
(***************************************************************************)
HookUnverified ==
  webhook.signature # "valid" \/ ~webhook.STRIPE_WEBHOOK_SECRET

\* C27: for a POST whose signature does not verify no event handler runs and
\* no license key is generated; with Stripe initialised handleWebhook returns
\* {success: false, error: 'Invalid signature'} and the answer is 400; every
\* handled request has exactly one response: 405 for a method other than
\* POST, 500 when handleWebhook threw, 200 on success, 400 on failure.
C27_NoHandlerWithoutSignature ==
  webhook.pc = "done" =>
    /\ Len(webhook.responses) = 1
    /\ webhook.method # "POST" =>
         (webhook.responses = <<405>> /\ webhook.result = NoHookResult)
    /\ webhook.method = "POST" =>
         webhook.responses =
           << IF webhook.result.threw THEN 500
              ELSE IF webhook.result.success THEN 200 ELSE 400 >>
    /\ (webhook.method = "POST" /\ HookUnverified) =>
         /\ webhook.result.handler = "none" /\ ~webhook.result.generated
         /\ webhook.STRIPE_SECRET_KEY =>
              /\ webhook.result =
                   HookResult(FALSE, FALSE, "Invalid signature", "none", FALSE)
              /\ webhook.responses = <<400>>

\* a checkout.session.completed event with a forged signature, answered 400
C27_Witness ==
  /\ webhook.pc = "done" /\ webhook.method = "POST"
  /\ webhook.signature = "invalid" /\ webhook.STRIPE_SECRET_KEY
  /\ webhook.STRIPE_WEBHOOK_SECRET
  /\ webhook.type = "checkout.session.completed" /\ webhook.metadata = "pro"
  /\ webhook.result.error = "Invalid signature"
  /\ webhook.responses = <<400>>


(***************************************************************************)
(* Properties of the license database.                                     *)
(***************************************************************************)
\* the members of the text, apart from _metadata, hash to the checksum
ChecksumMatches(metadata, licenses) ==
  /\ metadata.present /\ metadata.sha256.defined
  /\ metadata.sha256 = [defined |-> TRUE, of |-> licenses]

KeysOf(licenses) == { licenses[i].key : i \in 1..Len(licenses) }

\* C28: fetchLegitimateDatabase replaces the cache file by the download when
\* the download is a database whose _metadata.sha256 is the checksum of its
\* license entries, and returns its licenses; for every other answer (network
\* error or timeout, HTTP error, malformed or null body, no _metadata, no
\* checksum, wrong checksum) the file is as before and the licenses returned
\* are those of the cache, none when the cache is absent.
C28_CacheOnlyVerifiedDownloads ==
  dbCall.op = "fetchLegitimateDatabase" =>
    IF /\ dbCall.response.kind = "object"
       /\ ChecksumMatches(dbCall.response.metadata, dbCall.response.licenses)
      THEN /\ dbFile = DbFile(dbCall.response.metadata, dbCall.response.licenses)
           /\ KeysOf(dbCall.licenses) = KeysOf(dbCall.response.licenses)
      ELSE /\ dbFile = dbCall.before
           /\ dbCall.licenses = loadLegitimateDatabase(dbCall.before)
           /\ dbCall.before.kind # "db" => dbCall.licenses = <<>>

\* a download with a wrong checksum while the cache holds one license
C28_Witness ==
  /\ dbCall.op = "fetchLegitimateDatabase"
  /\ dbCall.response.kind = "object" /\ dbCall.response.metadata.sha256.defined
  /\ Len(dbCall.response.licenses) = 2
  /\ ~ChecksumMatches(dbCall.response.metadata, dbCall.response.licenses)
  /\ dbCall.before.kind = "db" /\ KeysOf(dbCall.before.licenses) = {"KEY-A"}
  /\ dbFile = dbCall.before
  /\ KeysOf(dbCall.licenses) = {"KEY-A"}

\* C30: after an addLegitimateKey call that reported success the file is a
\* database whose _metadata.sha256 is the checksum of its license entries and
\* whose _metadata.totalLicenses is their number; it holds the key just added
\* and every key it held before, each once; and fetchLegitimateDatabase
\* accepts it as a download.
C30_AddKeepsIntegrity ==
  (dbCall.op = "addLegitimateKey" /\ dbCall.success) =>
    /\ dbFile.kind = "db"
    /\ ChecksumMatches(dbFile.metadata, dbFile.licenses)
    /\ dbFile.metadata.hasTotal
    /\ dbFile.metadata.totalLicenses = Cardinality(KeysOf(dbFile.licenses))
    /\ Len(dbFile.licenses) = Cardinality(KeysOf(dbFile.licenses))
    /\ KeysOf(dbFile.licenses) = KeysOf(dbCall.before.licenses) \cup {dbCall.key}
    /\ fetchLegitimateDatabase(AbsentDb,
         FetchedObject(dbFile.metadata, dbFile.licenses)).success

\* a second key, its customerId undefined, added to a database that held one
\* license under a stale checksum
C30_Witness ==
  /\ dbCall.op = "addLegitimateKey" /\ dbCall.success /\ dbCall.key = "KEY-B"
  /\ dbCall.before.kind = "db" /\ KeysOf(dbCall.before.licenses) = {"KEY-A"}
  /\ ~ChecksumMatches(dbCall.before.metadata, dbCall.before.licenses)
  /\ Len(dbFile.licenses) = 2 /\ dbFile.licenses[2].key = "KEY-B"
  /\ Len(dbFile.licenses[2].text) < Len(dbFile.licenses[1].text)
  /\ dbFile.metadata.totalLicenses = 2


(***************************************************************************)
(* Properties of saving and removing the license.                          *)
(***************************************************************************)
\* C29: saveLicense with a well-formed key and no expiry reports success and
\* getLicenseInfo then returns the saved tier; removeLicense reports success,
\* leaves no license file, and getLicenseInfo then returns FREE without error.
C29_SavedLicenseIsReadBack ==
  /\ lastCall.op = "saveLicense" =>
       /\ lastCall.ret.success
       /\ getLicenseInfo(env, devMode, licenseFile, now).tier = lastCall.arg
  /\ lastCall.op = "removeLicense" =>
       /\ lastCall.ret.success
       /\ licenseFile.kind = "absent"
       /\ getLicenseInfo(env, devMode, licenseFile, now) = LicenseInfo("FREE", "", "")


====
